---- MODULE Spec2Model ----
(***************************************************************************)
(* A model of the vogo/vimage processor pipeline (processor.go) and of the *)
(* pixel processors that are chained through it (cut.go, the square and    *)
(* circle processors, mosaic.go).                                          *)
(*                                                                         *)
(* SpecExec   : Process / ContextProcess / ProcessImage, one action per    *)
(*              call, loop iteration and return.                           *)
(* SpecImg    : chains of crop, square-crop and circular-mask processors   *)
(*              applied to small images, one action per processor.         *)
(* SpecMosaic : MosaicProcessor.Process on an image or on a cropped view   *)
(*              of it, one action per region of the region list.           *)
(* SpecCorner : RoundedCornerProcessor, one action per call.               *)
(* SpecZoom, SpecFit : ZoomProcessor and calculateTargetSize.              *)
(* SpecOverlay: OverlayProcessor, one action per call.                     *)
(* SpecFont, SpecDefault : the font cache and the default font, one action *)
(*              per step of each goroutine.                                *)
(* SpecParam  : the constructors that check their arguments.               *)
(* SpecDraw   : the drawing processors on a shared gg context.             *)
(* SpecBlock, SpecWide : the block loops of MosaicProcessor.Process, one   *)
(*              action per block.                                          *)
(* SpecWrap   : wrapTextByRune, one action per character.                  *)
(***************************************************************************)
EXTENDS Integers, Sequences, FiniteSets, TLC

VARIABLES
    entry,      \* the exported function the caller invoked
    chain,      \* the caller's processor list: step records [id, kind]
    stack,      \* call stack of running Process / ContextProcess frames
    pc,         \* "idle", "run", "encode", "done"
    nCtx,       \* number of ImageProcessContext objects created so far
    log,        \* observable events, in program order
    result,     \* image (or bytes) handed back to the caller, Nil if none
    retErr,     \* error handed back to the caller, NoErr if none
    prevImg,    \* the image the last processor received
    curImg,     \* the image the last processor returned (NilImg with an error)
    op,         \* the last processor: its fields and what it computed
    opErr,      \* the error the last processor returned, "" if none
    nSteps,     \* number of processors applied so far
    nStore,     \* number of pixel arrays allocated so far
    mosaic,     \* the running MosaicProcessor.Process call: fields, dstImg, loop position
    fonts       \* the font cache: package variables, mutex, files, running LoadFont calls

execVars == <<entry, chain, stack, pc, nCtx, log, result, retErr>>

imgVars == <<prevImg, curImg, op, opErr, nSteps, nStore, mosaic>>

vars == <<entry, chain, stack, pc, nCtx, log, result, retErr,
          prevImg, curImg, op, opErr, nSteps, nStore, mosaic, fonts>>

-----------------------------------------------------------------------------
(* Bounds *)

MaxChain == 4

\* Largest width and height of a caller's image in SpecImg.
MaxDim == 3

\* Longest processor chain in SpecImg.
MaxSteps == 2

\* Width and height of the caller's image in SpecMosaic.
MosaicW == 11

MosaicH == 3

\* Longest region list in SpecMosaic.
MaxRegions == 2

\* Largest width and height of a caller's image in SpecCorner.
MaxCorner == 9

\* Largest width and height of a caller's image in SpecZoom.
MaxZoom == 5

\* Largest width and height of the base image in SpecOverlay.
MaxOverlay == 3

\* Number of goroutines that load fonts in SpecFont.
MaxGoroutines == 2

\* Largest number of font loading calls one goroutine makes in SpecFont.
MaxCalls == 2

\* Context processors run on one drawing context.
MaxDraw == 4

\* States a caller's own context processor saves on the context's stack.
MaxDepth == 2

\* Sides of the blurred rectangle in SpecBlock: 1..MaxBlurSmall and
\* 95..MaxBlur.
MaxBlurSmall == 21

MaxBlur == 121

\* Longest text wrapped in SpecWrap, and the largest maxWidth in pixels.
MaxText == 5

MaxWidth == 4

\* Largest width and height of the caller's image in SpecFit, and the
\* largest size asked for.
MaxFit == 22

MaxFitSize == 17

\* Largest width and height of the blurred rectangle in SpecWide.
MaxWide == 2575

MaxTall == 258

-----------------------------------------------------------------------------
(* Values *)

\* A Go nil image / nil byte slice.
Nil == <<-1>>

\* A Go nil error.
NoErr == [cause |-> "none", path |-> <<>>]

\* An error value: the originating cause and the list of step positions that
\* wrappers (fmt.Errorf("... %w")) have added around it, outermost first.
StepErr(cause) == [cause |-> cause, path |-> <<>>]

\* The image the caller passes in.  A buffer is named by the list of step ids
\* that produced it from the caller's image, so that the buffers made by
\* different steps are different values.
CallerImg == <<>>

\* The bytes an encoder produces for an image.
Encoded(img) == <<0>> \o img

\* Kinds of step a caller can put in a []Processor list:
\*   "direct"  a processor that returns a new image       (e.g. MosaicProcessor)
\*   "empty"   EmptyProcessor, returns its input
\*   "dfail"   a processor whose Process returns an error (e.g. Circle on a
\*             non-square image)
\*   "context" a drawing processor whose Process is
\*             ContextProcess(img, []ContextProcessor{p}) (DrawCircleProcessor)
\*   "cfail"   the same, its ContextProcess returning an error
ProcessorKinds == {"direct", "empty", "dfail", "context", "cfail"}

\* Kinds of step a caller can put in a []ContextProcessor list.
ContextProcessorKinds == {"context", "cfail"}

RECURSIVE SeqsUpTo(_, _)
SeqsUpTo(S, n) ==
    IF n = 0 THEN {<<>>}
    ELSE LET shorter == SeqsUpTo(S, n - 1)
         IN  shorter \cup {Append(s, k) : s \in {t \in shorter : Len(t) = n - 1}, k \in S}

\* A processor list: the i-th processor gets id i.
MkChain(kinds) == [i \in 1..Len(kinds) |-> [id |-> i, kind |-> kinds[i]]]

-----------------------------------------------------------------------------
(* image.Image values (package image of the Go library, as the processors   *)
(* use it)                                                                  *)

\* The pixels of the rectangle [min, max).
Points(min, max) ==
    {<<x, y>> : x \in min[1]..(max[1] - 1), y \in min[2]..(max[2] - 1)}

\* color.RGBA{}: the zero colour, fully transparent.
Transparent == <<0, 0, 0, 0>>

\* A nil image.Image.
NilImg == [min |-> <<0, 0>>, max |-> <<0, 0>>, pix |-> <<>>, store |-> -1,
           sub |-> FALSE]

\* img.Bounds().Dx() and img.Bounds().Dy()
Dx(img) == img.max[1] - img.min[1]

Dy(img) == img.max[2] - img.min[2]

\* img.At(x, y): the zero colour outside the bounds.
At(img, x, y) ==
    IF /\ img.min[1] <= x /\ x < img.max[1]
       /\ img.min[2] <= y /\ y < img.max[2]
    THEN img.pix[<<x, y>>]
    ELSE Transparent

\* image.NewRGBA(image.Rect(x0, y0, x1, y1)) after the pixels have been set:
\* paint gives the colour set at each point.  The image has a pixel array of
\* its own (store).
NewRGBA(min, max, paint(_, _), store) ==
    [min |-> min, max |-> max,
     pix |-> [pt \in Points(min, max) |-> paint(pt[1], pt[2])],
     store |-> store, sub |-> TRUE]

\* (*image.RGBA).SubImage(image.Rect(x0, y0, x1, y1)) for x0 < x1, y0 < y1:
\* the rectangle is intersected with the image's bounds; an empty
\* intersection gives &image.RGBA{}, otherwise the result is a view of the
\* same pixel array.
SubImage(img, x0, y0, x1, y1) ==
    LET lo == <<IF x0 > img.min[1] THEN x0 ELSE img.min[1],
                IF y0 > img.min[2] THEN y0 ELSE img.min[2]>>
        hi == <<IF x1 < img.max[1] THEN x1 ELSE img.max[1],
                IF y1 < img.max[2] THEN y1 ELSE img.max[2]>>
    IN  IF lo[1] >= hi[1] \/ lo[2] >= hi[2]
        THEN [min |-> <<0, 0>>, max |-> <<0, 0>>, pix |-> <<>>, store |-> 0,
              sub |-> TRUE]
        ELSE [min |-> lo, max |-> hi,
              pix |-> [pt \in Points(lo, hi) |-> img.pix[pt]],
              store |-> img.store, sub |-> TRUE]

\* The colour of the caller's image at (x, y).
SourceColour(x, y) == <<10 * x + 1, 10 * y + 2, x + y, 255 - x>>

\* A caller's image of w x h pixels, its bounds starting at (0, 0); sub tells
\* whether its type has a SubImage method (every image type of the standard
\* library has).
SourceImage(w, h, sub) ==
    [min |-> <<0, 0>>, max |-> <<w, h>>,
     pix |-> [pt \in Points(<<0, 0>>, <<w, h>>) |-> SourceColour(pt[1], pt[2])],
     store |-> 1, sub |-> sub]

\* The fields of the last processor and what it computed: width, height the
\* size it settled on, (x, y) the start position it computed (placed tells
\* whether it got that far).
NoOp ==
    [kind |-> "none", Width |-> 0, Height |-> 0, Position |-> "", X |-> 0, Y |-> 0,
     UseCustomRegion |-> FALSE, SquareMode |-> FALSE,
     width |-> 0, height |-> 0, x |-> 0, y |-> 0, placed |-> FALSE]

\* No MosaicProcessor.Process call is running.
MosaicIdle ==
    [running |-> FALSE, MosaicPercent |-> 0, StartDirection |-> "", n |-> 0,
     region |-> <<0, 0, 0, 0>>, actual |-> <<0, 0, 0, 0>>, skipped |-> FALSE,
     nSkipped |-> 0, mosaicSize |-> 0, dstImg |-> NilImg, blurred |-> {}]

\* No pixel processor has run.
\* The package variables that hold the loaded fonts.
FontSlots == {"notoSansSCWghtFont", "harmonyOSSansSCBlack"}

Goroutines == 1..MaxGoroutines

\* No font is loaded, the mutex is free, no goroutine is in a call. A font
\* object is a number above 0; 0 is nil.  path[f] is the slot whose file or
\* URL font f was parsed from; defaultFont is the package variable of that
\* name.
FontIdle ==
    [source |-> "font.go",
     slot |-> [s \in FontSlots |-> 0],
     mutex |-> 0,
     file |-> [s \in FontSlots |-> FALSE],
     parsed |-> 0,
     loads |-> [s \in FontSlots |-> 0],
     returned |-> [s \in FontSlots |-> {}],
     crashed |-> FALSE,
     g |-> [t \in Goroutines |-> [pc |-> "idle", want |-> "", ret |-> 0, calls |-> 0]],
     path |-> <<>>,
     defaultFont |-> 0]

ImgIdle ==
    /\ prevImg = NilImg
    /\ curImg = NilImg
    /\ op = NoOp
    /\ opErr = ""
    /\ nSteps = 0
    /\ nStore = 0
    /\ mosaic = MosaicIdle
    /\ fonts = FontIdle

-----------------------------------------------------------------------------
(* processor.go *)

\* type ImageProcessContext: the gg.Context, seeded by dc.DrawImage(img, 0, 0)
NewImageProcessContext(img, id) == [id |-> id, content |-> img]

NoCtx == [id |-> 0, content |-> Nil]

\* A drawing step draws into the context it is given.
DrawInto(ctx, step) == [ctx EXCEPT !.content = Append(@, step.id)]

\* ctx.dc.Image(): the context flattened into a buffer.
ContextImage(ctx) == ctx.content

\* EmptyProcessor.Process
EmptyProcessor(img) == img

\* The image a direct processor returns for input img.
DirectProcessor(img, step) == Append(img, step.id)

\* Mutant: every step is handed the caller's image.
StepInput_Stale(callerImg, currentImg) == callerImg

\* What Process hands to the next processor: `processor.Process(currentImg)`.
StepInput(callerImg, currentImg) == currentImg

\* Mutant: the executor wraps the error with the step's position.
ReturnErr_Wrapped(err, index) == [err EXCEPT !.path = <<index>> \o @]

\* What an executor returns when the step at position index has failed:
\* `return nil, err`.
ReturnErr(err, index) == err

\* Mutant: the executor returns the image processed so far with the error.
ErrResult_Partial(currentImg) == currentImg

\* The image an executor returns together with an error: `return nil, err`.
ErrResult(currentImg) == Nil

\* Mutant: a context of its own for every step of the loop.
StepContext_Fresh(ctx, i) == [ctx EXCEPT !.id = @ + i - 1]

\* The context ContextProcess hands to the step at position i: `ctx`.
StepContext(ctx, i) == ctx

ProcessImageFrame(processors) ==
    [fn |-> "ProcessImage", procs |-> processors, i |-> 0, img |-> CallerImg,
     ctx |-> NoCtx]

ProcessFrame(img, processors) ==
    [fn |-> "Process", procs |-> processors, i |-> 1, img |-> img, ctx |-> NoCtx]

\* Mutant: every ContextProcess call draws into one process-wide context.
ContextProcessFrame_Shared(img, processors, id) ==
    [fn |-> "ContextProcess", procs |-> processors, i |-> 1, img |-> img,
     ctx |-> NewImageProcessContext(img, 1)]

ContextProcessFrame(img, processors, id) ==
    [fn |-> "ContextProcess", procs |-> processors, i |-> 1, img |-> img,
     ctx |-> NewImageProcessContext(img, id)]

Top == stack[Len(stack)]

Pop(s) == SubSeq(s, 1, Len(s) - 1)

\* The top frame has returned (img, err); callers is the stack below it.
\* A Process frame is waiting at `currentImg, err = processor.Process(currentImg)`
\* followed by `if err != nil { return nil, err }`; a ProcessImage frame at
\* `currentImg, err := Process(srcImg, processors)` followed by the same test.
\* The result is the state in which the program next does something else.
RECURSIVE Unwind(_, _, _)
Unwind(callers, img, err) ==
    IF callers = <<>>
    THEN [stack |-> <<>>, pc |-> "done", result |-> img, retErr |-> err,
          events |-> <<>>]
    ELSE LET f == callers[Len(callers)]
         IN  IF f.fn = "Process"
             THEN LET ret == [ev |-> "ret", step |-> f.procs[f.i].id,
                              out |-> img, err |-> err]
                  IN  IF err # NoErr
                      THEN LET up == Unwind(Pop(callers), ErrResult(f.img), ReturnErr(err, f.i))
                           IN  [up EXCEPT !.events = <<ret>> \o @]
                      ELSE [stack |-> [callers EXCEPT ![Len(callers)] =
                                          [f EXCEPT !.img = img, !.i = f.i + 1]],
                            pc |-> "run", result |-> Nil, retErr |-> NoErr,
                            events |-> <<ret>>]
             ELSE \* ProcessImage
                  IF err # NoErr
                  THEN Unwind(Pop(callers), ErrResult(f.img), err)
                  ELSE [stack |-> [callers EXCEPT ![Len(callers)] =
                                      [f EXCEPT !.img = img]],
                        pc |-> "encode", result |-> Nil, retErr |-> NoErr,
                        events |-> <<>>]

\* Apply the outcome of a return (see Unwind) after logging events.
Return(callers, img, err, events) ==
    LET u == Unwind(callers, img, err)
    IN  /\ stack' = u.stack
        /\ pc' = u.pc
        /\ result' = u.result
        /\ retErr' = u.retErr
        /\ log' = log \o events \o u.events

ExecInit ==
    /\ entry = "none"
    /\ chain = <<>>
    /\ stack = <<>>
    /\ pc = "idle"
    /\ nCtx = 0
    /\ log = <<>>
    /\ result = Nil
    /\ retErr = NoErr
    /\ ImgIdle

\* The caller invokes Process(img, processors).
CallProcess ==
    /\ pc = "idle"
    /\ UNCHANGED <<imgVars, fonts>>
    /\ \E kinds \in SeqsUpTo(ProcessorKinds, MaxChain) :
          /\ chain' = MkChain(kinds)
          /\ stack' = <<ProcessFrame(CallerImg, chain')>>
    /\ entry' = "Process"
    /\ pc' = "run"
    /\ UNCHANGED <<nCtx, log, result, retErr>>

\* The caller invokes ProcessImage(imgData, processors, options):
\* image.Decode, then Process(srcImg, processors).
CallProcessImage ==
    /\ pc = "idle"
    /\ UNCHANGED <<imgVars, fonts>>
    /\ entry' = "ProcessImage"
    /\ \E kinds \in SeqsUpTo(ProcessorKinds, MaxChain), decoded \in BOOLEAN :
          /\ chain' = MkChain(kinds)
          /\ IF decoded
             THEN /\ stack' = <<ProcessImageFrame(chain'),
                                ProcessFrame(CallerImg, chain')>>
                  /\ pc' = "run"
                  /\ UNCHANGED <<result, retErr>>
             ELSE /\ stack' = <<>>
                  /\ pc' = "done"
                  /\ result' = Nil
                  /\ retErr' = StepErr("decode")
    /\ UNCHANGED <<nCtx, log>>

\* The caller invokes ContextProcess(img, processors):
\* ctx := NewImageProcessContext(img).
CallContextProcess ==
    /\ pc = "idle"
    /\ UNCHANGED <<imgVars, fonts>>
    /\ entry' = "ContextProcess"
    /\ \E kinds \in SeqsUpTo(ContextProcessorKinds, MaxChain) :
          /\ chain' = MkChain(kinds)
          /\ stack' = <<ContextProcessFrame(CallerImg, chain', nCtx + 1)>>
    /\ nCtx' = nCtx + 1
    /\ log' = Append(log, [ev |-> "create", ctx |-> nCtx + 1, seed |-> CallerImg])
    /\ pc' = "run"
    /\ UNCHANGED <<result, retErr>>

\* One iteration of the loop of Process:
\* currentImg, err = processor.Process(currentImg); if err != nil {return nil, err}
ProcessStep ==
    /\ pc = "run"
    /\ UNCHANGED <<imgVars, fonts>>
    /\ Top.fn = "Process"
    /\ Top.i <= Len(Top.procs)
    /\ LET f    == Top
           step == f.procs[f.i]
           inp  == StepInput(CallerImg, f.img)
           call == [ev |-> "call", step |-> step.id, inp |-> inp]
       IN  CASE step.kind = "direct" ->
                  /\ Return(stack, DirectProcessor(inp, step), NoErr, <<call>>)
                  /\ UNCHANGED nCtx
             [] step.kind = "empty" ->
                  /\ Return(stack, EmptyProcessor(inp), NoErr, <<call>>)
                  /\ UNCHANGED nCtx
             [] step.kind = "dfail" ->
                  /\ Return(stack, Nil, StepErr("direct"), <<call>>)
                  /\ UNCHANGED nCtx
             [] step.kind \in ContextProcessorKinds ->
                  \* DrawCircleProcessor.Process:
                  \* return ContextProcess(img, []ContextProcessor{p})
                  /\ stack' = Append(stack, ContextProcessFrame(inp, <<step>>, nCtx + 1))
                  /\ nCtx' = nCtx + 1
                  /\ log' = log \o <<call, [ev |-> "create", ctx |-> nCtx + 1,
                                             seed |-> inp]>>
                  /\ UNCHANGED <<pc, result, retErr>>
    /\ UNCHANGED <<entry, chain>>

\* Process falls out of its loop: return currentImg, nil
ProcessReturn ==
    /\ pc = "run"
    /\ UNCHANGED <<imgVars, fonts>>
    /\ Top.fn = "Process"
    /\ Top.i > Len(Top.procs)
    /\ Return(Pop(stack), Top.img, NoErr, <<>>)
    /\ UNCHANGED <<entry, chain, nCtx>>

\* One iteration of the loop of ContextProcess:
\* if err := processor.ContextProcess(ctx); err != nil { return nil, err }
ContextProcessStep ==
    /\ pc = "run"
    /\ UNCHANGED <<imgVars, fonts>>
    /\ Top.fn = "ContextProcess"
    /\ Top.i <= Len(Top.procs)
    /\ LET f    == Top
           step == f.procs[f.i]
           ctx  == StepContext(f.ctx, f.i)
           call == [ev |-> "ctxcall", step |-> step.id, ctx |-> ctx.id,
                    seen |-> ctx.content]
       IN  IF step.kind = "context"
           THEN /\ stack' = [stack EXCEPT ![Len(stack)] =
                               [f EXCEPT !.ctx = DrawInto(ctx, step), !.i = f.i + 1]]
                /\ log' = Append(log, call)
                /\ UNCHANGED <<pc, result, retErr>>
           ELSE Return(Pop(stack), ErrResult(ContextImage(ctx)),
                       ReturnErr(StepErr("context"), f.i), <<call>>)
    /\ UNCHANGED <<entry, chain, nCtx>>

\* ContextProcess falls out of its loop: return ctx.dc.Image(), nil
ContextProcessReturn ==
    /\ pc = "run"
    /\ UNCHANGED <<imgVars, fonts>>
    /\ Top.fn = "ContextProcess"
    /\ Top.i > Len(Top.procs)
    /\ LET out == ContextImage(Top.ctx)
       IN  Return(Pop(stack), out, NoErr,
                  <<[ev |-> "finalize", ctx |-> Top.ctx.id, out |-> out]>>)
    /\ UNCHANGED <<entry, chain, nCtx>>

\* ProcessImage encodes the image Process returned (png.Encode / jpeg.Encode).
Encode ==
    /\ pc = "encode"
    /\ UNCHANGED <<imgVars, fonts>>
    /\ \E ok \in BOOLEAN :
          IF ok
          THEN /\ result' = Encoded(Top.img)
               /\ retErr' = NoErr
          ELSE /\ result' = Nil
               /\ retErr' = StepErr("encode")
    /\ stack' = <<>>
    /\ pc' = "done"
    /\ UNCHANGED <<entry, chain, nCtx, log>>

ExecNext ==
    \/ CallProcess
    \/ CallProcessImage
    \/ CallContextProcess
    \/ ProcessStep
    \/ ProcessReturn
    \/ ContextProcessStep
    \/ ContextProcessReturn
    \/ Encode

SpecExec == ExecInit /\ [][ExecNext]_vars

-----------------------------------------------------------------------------
(* cut.go: CutProcessor *)

CutPositions == {"center", "top", "bottom", "left", "right", "other"}

Min2(a, b) == IF a < b THEN a ELSE b

\* &CutProcessor{...}
CutProcessor(width, height, position, x, y, useCustomRegion, squareMode) ==
    [NoOp EXCEPT !.kind = "cut", !.Width = width, !.Height = height,
                 !.Position = position, !.X = x, !.Y = y,
                 !.UseCustomRegion = useCustomRegion, !.SquareMode = squareMode]

\* CutProcessor.Process, lines 65-81: the target size <<width, height>>.
CutSize(p, origWidth, origHeight) ==
    IF p.SquareMode
    THEN IF p.Width = 0 /\ p.Height = 0
         THEN <<Min2(origWidth, origHeight), Min2(origWidth, origHeight)>>
         ELSE IF p.Width > 0 /\ p.Height = 0
              THEN <<p.Width, p.Width>>
              ELSE IF p.Width = 0 /\ p.Height > 0
                   THEN <<p.Height, p.Height>>
                   ELSE <<p.Width, p.Height>>
    ELSE <<p.Width, p.Height>>

\* Mutant: every preset position is cut around the centre.
CutStart_Centred(p, origWidth, origHeight, width, height) ==
    IF p.UseCustomRegion
    THEN <<p.X, p.Y>>
    ELSE <<(origWidth - width) \div 2, (origHeight - height) \div 2>>

\* CutProcessor.Process, lines 104-141: the start position <<x, y>>.  Go's
\* integer division truncates; the dividends here are never negative.
CutStart(p, origWidth, origHeight, width, height) ==
    IF p.UseCustomRegion
    THEN <<p.X, p.Y>>
    ELSE CASE p.Position = "top"    -> <<(origWidth - width) \div 2, 0>>
           [] p.Position = "bottom" -> <<(origWidth - width) \div 2, origHeight - height>>
           [] p.Position = "left"   -> <<0, (origHeight - height) \div 2>>
           [] p.Position = "right"  -> <<origWidth - width, (origHeight - height) \div 2>>
           [] OTHER -> <<(origWidth - width) \div 2, (origHeight - height) \div 2>>

\* Go's int, taken as 32 bits wide (GOARCH 386, arm; on 64-bit platforms the
\* same happens at 2^63).
MaxInt == 2147483647

MinInt == -MaxInt - 1

\* a + b on int: the sum wraps around.
IntAdd(a, b) ==
    IF b > 0 /\ a > MaxInt - b
    THEN MinInt + (a - (MaxInt - b) - 1)
    ELSE IF b < 0 /\ a < MinInt - b
         THEN MaxInt - ((MinInt - b) - a - 1)
         ELSE a + b

Max2(a, b) == IF a > b THEN a ELSE b

\* The rectangle CutProcessor.Process asks SubImage for: image.Rect(x, y,
\* x+width, y+height), x and y counted from (0, 0). image.Rect swaps the
\* coordinates of an axis when the first is above the second.
CutRect(img, x, y, width, height) ==
    <<Min2(x, IntAdd(x, width)), Min2(y, IntAdd(y, height)),
      Max2(x, IntAdd(x, width)), Max2(y, IntAdd(y, height))>>

\* CutProcessor.Process.  store is the pixel array a new image would get.
CutProcess(p, img, store) ==
    LET origWidth == Dx(img)
        origHeight == Dy(img)
        size == CutSize(p, origWidth, origHeight)
        width == size[1]
        height == size[2]
        start == CutStart(p, origWidth, origHeight, width, height)
        x == start[1]
        y == start[2]
        r == CutRect(img, x, y, width, height)
        failed(msg) == [img |-> NilImg, err |-> msg,
                        op |-> [p EXCEPT !.width = width, !.height = height]]
        placed == [p EXCEPT !.width = width, !.height = height,
                            !.x = x, !.y = y, !.placed = TRUE]
    IN  IF p.SquareMode /\ width # height
        THEN failed("square mode: width and height must be equal")
        ELSE IF p.SquareMode /\ origWidth = origHeight /\ origWidth = width
                /\ ~p.UseCustomRegion
        THEN [img |-> img, err |-> "",
              op |-> [p EXCEPT !.width = width, !.height = height]]
        ELSE IF width <= 0 \/ height <= 0
        THEN failed("invalid cut size")
        ELSE IF width > origWidth \/ height > origHeight
        THEN failed("cut size exceeds original size")
        ELSE IF p.UseCustomRegion
                /\ (x < 0 \/ y < 0 \/ IntAdd(x, width) > origWidth
                    \/ IntAdd(y, height) > origHeight)
        THEN failed("invalid cut region")
        ELSE IF img.sub
        THEN [img |-> SubImage(img, r[1], r[2], r[3], r[4]), err |-> "", op |-> placed]
        ELSE [img |-> NewRGBA(<<0, 0>>, <<width, height>>,
                              LAMBDA dx, dy : At(img, IntAdd(x, dx), IntAdd(y, dy)), store),
              err |-> "", op |-> placed]

-----------------------------------------------------------------------------
(* The square processor: SquareProcessor *)

\* SquareProcessor.Process
SquareProcess(position, img, store) ==
    LET width == Dx(img)
        height == Dy(img)
        size == IF height < width THEN height ELSE width
        p == CutProcessor(0, 0, position, 0, 0, FALSE, TRUE)
        start == CutStart(p, width, height, size, size)
        x == start[1]
        y == start[2]
    IN  IF width = height
        THEN [img |-> img, err |-> "",
              op |-> [p EXCEPT !.kind = "square", !.width = width, !.height = height]]
        ELSE [img |-> NewRGBA(<<0, 0>>, <<size, size>>,
                              LAMBDA dx, dy : At(img, x + dx, y + dy), store),
              err |-> "",
              op |-> [p EXCEPT !.kind = "square", !.width = size, !.height = size,
                               !.x = x, !.y = y, !.placed = TRUE]]

-----------------------------------------------------------------------------
(* The circle processor: CutCircleProcessor, Circle *)

\* Mutant: the radius is the width, not half of it.
InCircle_Diameter(x, y, width, height) ==
    (2 * x - width) * (2 * x - width) + (2 * y - height) * (2 * y - height)
        <= 4 * width * width

\* distance <= radius in Circle: the distance of (x, y) from
\* (width/2, height/2) against radius = width/2, all float64.  The operands
\* are halves of integers, so the comparison is decided exactly by the
\* squares scaled by 4.
InCircle(x, y, width, height) ==
    (2 * x - width) * (2 * x - width) + (2 * y - height) * (2 * y - height)
        <= width * width

\* Circle(img)
Circle(img, store) ==
    LET width == Dx(img)
        height == Dy(img)
    IN  IF width # height
        THEN [img |-> NilImg, err |-> "image must be square for circular cropping",
              op |-> [NoOp EXCEPT !.kind = "circle"]]
        ELSE [img |-> NewRGBA(img.min, img.max,
                              LAMBDA x, y : IF InCircle(x, y, width, height)
                                            THEN At(img, x, y) ELSE Transparent,
                              store),
              err |-> "", op |-> [NoOp EXCEPT !.kind = "circle"]]

-----------------------------------------------------------------------------
(* The empty processor: EmptyProcessor *)

\* EmptyProcessor.Process: the image it was given.
EmptyProcess(img) == [img |-> img, err |-> "", op |-> [NoOp EXCEPT !.kind = "empty"]]

-----------------------------------------------------------------------------
(* Chains of pixel processors *)

ExecIdle ==
    /\ entry = "none"
    /\ chain = <<>>
    /\ stack = <<>>
    /\ pc = "idle"
    /\ nCtx = 0
    /\ log = <<>>
    /\ result = Nil
    /\ retErr = NoErr

\* The caller's image: any size up to MaxDim x MaxDim.
ImgInit ==
    /\ ExecIdle
    /\ prevImg = NilImg
    /\ \E w \in 1..MaxDim, h \in 1..MaxDim, sub \in BOOLEAN :
          curImg = SourceImage(w, h, sub)
    /\ op = NoOp
    /\ opErr = ""
    /\ nSteps = 0
    /\ nStore = 1
    /\ mosaic = MosaicIdle
    /\ fonts = FontIdle

\* The next processor of the chain runs on the current image and its result
\* becomes the current image; an error ends the chain.
Apply(r) ==
    /\ prevImg' = curImg
    /\ curImg' = r.img
    /\ op' = (r.op @@ [prevKind |-> op.kind])
    /\ opErr' = r.err
    /\ nSteps' = nSteps + 1
    /\ nStore' = IF r.img.store = nStore + 1 THEN nStore + 1 ELSE nStore
    /\ UNCHANGED <<execVars, fonts, mosaic>>

CanStep == nSteps < MaxSteps /\ opErr = ""

\* A CutProcessor with a preset position (NewCutProcessor,
\* NewCutSquareProcessor, NewCutSquareProcessorWithSize, or the struct with
\* any field values).
CutPresetStep ==
    /\ CanStep
    /\ \E width \in -1..(Dx(curImg) + 1), height \in -1..(Dy(curImg) + 1),
          position \in CutPositions, squareMode \in BOOLEAN :
          Apply(CutProcess(CutProcessor(width, height, position, 0, 0, FALSE, squareMode),
                           curImg, nStore + 1))

\* A CutProcessor with a custom region (NewCutProcessorWithRegion,
\* NewCutSquareProcessorWithRegion, or the struct with any field values).
CutRegionStep ==
    /\ CanStep
    /\ \E width \in -1..(Dx(curImg) + 1), height \in -1..(Dy(curImg) + 1),
          x \in -1..Dx(curImg) \cup {MaxInt}, y \in -1..Dy(curImg) \cup {MaxInt},
          squareMode \in BOOLEAN :
          Apply(CutProcess(CutProcessor(width, height, "", x, y, TRUE, squareMode),
                           curImg, nStore + 1))

\* A SquareProcessor (NewSquareProcessor maps an unknown position to "center").
SquareStep ==
    /\ CanStep
    /\ \E position \in CutPositions \ {"other"} :
          Apply(SquareProcess(position, curImg, nStore + 1))

\* A CutCircleProcessor.
CircleStep ==
    /\ CanStep
    /\ Apply(Circle(curImg, nStore + 1))

\* An EmptyProcessor.
EmptyStep ==
    /\ CanStep
    /\ Apply(EmptyProcess(curImg))

ImgNext ==
    \/ CutPresetStep
    \/ CutRegionStep
    \/ SquareStep
    \/ CircleStep
    \/ EmptyStep

SpecImg == ImgInit /\ [][ImgNext]_vars

-----------------------------------------------------------------------------
(* mosaic.go: MosaicProcessor *)

Directions == {"left", "right", "top", "bottom", "other"}

\* Go's integer division and int(float) conversion truncate towards zero.
GoDiv(a, b) == IF a >= 0 THEN a \div b ELSE -((-a) \div b)

\* NewMosaicProcessor: a percent outside [0, 1] becomes 1.0.  Percents are
\* counted in quarters (4 is 1.0); quarters are exact in float32.
NewMosaicProcessor(mosaicPercent, startDirection) ==
    [MosaicPercent |-> IF mosaicPercent < 0 \/ mosaicPercent > 4 THEN 4 ELSE mosaicPercent,
     StartDirection |-> startDirection]

\* int(float32(length) * percent)
PercentOf(length, percent) == GoDiv(length * percent, 4)

\* calculateMosaicRegion
calculateMosaicRegion(fromX, fromY, toX, toY, percent, direction) ==
    LET width == toX - fromX
        height == toY - fromY
    IN  CASE direction = "left"   -> <<fromX, fromY, fromX + PercentOf(width, percent), toY>>
          [] direction = "right"  -> <<toX - PercentOf(width, percent), fromY, toX, toY>>
          [] direction = "top"    -> <<fromX, fromY, toX, fromY + PercentOf(height, percent)>>
          [] direction = "bottom" -> <<fromX, toY - PercentOf(height, percent), toX, toY>>
          [] OTHER -> <<fromX, fromY, toX, toY>>

\* Mutant: a region given the wrong way round is put in order, not skipped.
ClampRegion_Ordered(region, width, height) ==
    <<IF Min2(region[1], region[3]) < 0 THEN 0 ELSE Min2(region[1], region[3]),
      IF Min2(region[2], region[4]) < 0 THEN 0 ELSE Min2(region[2], region[4]),
      IF region[1] + region[3] - Min2(region[1], region[3]) > width THEN width
      ELSE region[1] + region[3] - Min2(region[1], region[3]),
      IF region[2] + region[4] - Min2(region[2], region[4]) > height THEN height
      ELSE region[2] + region[4] - Min2(region[2], region[4])>>

\* MosaicProcessor.Process, lines 168-185: the region clamped to
\* [0, width] x [0, height].
ClampRegion(region, width, height) ==
    <<IF region[1] < 0 THEN 0 ELSE region[1],
      IF region[2] < 0 THEN 0 ELSE region[2],
      IF region[3] > width THEN width ELSE region[3],
      IF region[4] > height THEN height ELSE region[4]>>

\* Mutant: the block size follows the width only.
MosaicSize_ByWidth(actual) ==
    LET byWidth == GoDiv(actual[3] - actual[1], 10)
    IN  IF byWidth > 10 THEN byWidth ELSE 10

\* MosaicProcessor.Process, lines 196-202: the block size.
MosaicSize(actual) ==
    LET byWidth == GoDiv(actual[3] - actual[1], 10)
        byHeight == GoDiv(actual[4] - actual[2], 10)
        s1 == IF byWidth > 10 THEN byWidth ELSE 10
    IN  IF byHeight > s1 THEN byHeight ELSE s1

\* The loop `for v := from; v < to; v += step`: the values v takes.
RECURSIVE LoopValues(_, _, _)
LoopValues(from, to, step) ==
    IF from >= to THEN {} ELSE {from} \cup LoopValues(from + step, to, step)

\* Mutant: the last block of a row or column is not clipped.
BlockEnd_Unclipped(v, mosaicSize, actualTo) == v + mosaicSize

\* MosaicProcessor.Process, lines 207-214: the end of the block that starts at
\* v, clipped to the end of the blurred rectangle.
BlockEnd(v, mosaicSize, actualTo) ==
    IF v + mosaicSize > actualTo THEN actualTo ELSE v + mosaicSize

\* color.RGBA.RGBA(): an 8-bit channel widened to 16 bits.
Channel16(c) == c * 257

\* MosaicProcessor.Process, lines 220-229: the total of channel ch over the
\* block [x, blockEndX) x [y, blockEndY), row by row.
RECURSIVE RowTotal(_, _, _, _, _)
RowTotal(img, blockX, blockEndX, blockY, ch) ==
    IF blockX >= blockEndX THEN 0
    ELSE Channel16(At(img, blockX, blockY)[ch])
             + RowTotal(img, blockX + 1, blockEndX, blockY, ch)

RECURSIVE BlockTotal(_, _, _, _, _, _)
BlockTotal(img, x, blockEndX, blockY, blockEndY, ch) ==
    IF blockY >= blockEndY THEN 0
    ELSE RowTotal(img, x, blockEndX, blockY, ch)
             + BlockTotal(img, x, blockEndX, blockY + 1, blockEndY, ch)

\* MosaicProcessor.Process, lines 217-237: uint8(total / pixelCount / 256)
\* for channel ch over the block.  The totals are uint32; a block of the
\* sizes modelled here sums to less than 2^31.
BlockMean(img, x, blockEndX, y, blockEndY, ch) ==
    LET pixelCount == (blockEndX - x) * (blockEndY - y)
    IN  ((BlockTotal(img, x, blockEndX, y, blockEndY, ch) \div pixelCount) \div 256) % 256

\* k * v mod 2^31 for k >= 0 and 0 <= v < 2^31, without leaving 32 bits.
AddMod31(a, b) == IF a > 2147483647 - b THEN (a - (2147483647 - b)) - 1 ELSE a + b

RECURSIVE MulMod31(_, _)
MulMod31(k, v) ==
    IF k = 0 THEN 0
    ELSE LET half == MulMod31(k \div 2, v)
             twice == AddMod31(half, half)
         IN  IF k % 2 = 1 THEN AddMod31(twice, v) ELSE twice

\* randomSeed := (x*1103515245 + y*69069) & 0x7fffffff
RandomSeed(x, y) == AddMod31(MulMod31(x, 1103515245), MulMod31(y, 69069))

\* Mutant: the offset is not centred on 0.
Offset_Uncentred(seed, shift) ==
    LET shifted == IF shift = 0 THEN seed
                   ELSE IF shift = 8 THEN seed \div 256 ELSE seed \div 65536
    IN  shifted % 21

\* offsetR, offsetG, offsetB: int8((randomSeed >> shift) % 21 - 10)
Offset(seed, shift) ==
    LET shifted == IF shift = 0 THEN seed
                   ELSE IF shift = 8 THEN seed \div 256 ELSE seed \div 65536
    IN  (shifted % 21) - 10

\* clampUint8
clampUint8(value) == IF value < 0 THEN 0 ELSE IF value > 255 THEN 255 ELSE value

\* MosaicProcessor.Process, lines 231-256: the colour written to the block
\* [x, blockEndX) x [y, blockEndY).
BlockColour(img, x, blockEndX, y, blockEndY) ==
    LET seed == RandomSeed(x, y)
    IN  <<clampUint8(BlockMean(img, x, blockEndX, y, blockEndY, 1) + Offset(seed, 0)),
          clampUint8(BlockMean(img, x, blockEndX, y, blockEndY, 2) + Offset(seed, 8)),
          clampUint8(BlockMean(img, x, blockEndX, y, blockEndY, 3) + Offset(seed, 16)),
          BlockMean(img, x, blockEndX, y, blockEndY, 4)>>

\* dstImg.SetRGBA(x, y, c) for every (x, y) of pts: points outside the
\* bounds of dstImg are ignored.
SetRGBA(dstImg, pts, c) ==
    [dstImg EXCEPT !.pix = [pt \in DOMAIN dstImg.pix |->
                               IF pt \in pts THEN c ELSE dstImg.pix[pt]]]

\* MosaicProcessor.Process, lines 204-261: the blocks in loop order, each
\* averaged over img and written to dstImg.
RECURSIVE BlurBlocks(_, _, _, _, _)
BlurBlocks(dstImg, img, origins, actual, mosaicSize) ==
    IF origins = <<>> THEN dstImg
    ELSE LET x == Head(origins)[1]
             y == Head(origins)[2]
             blockEndX == BlockEnd(x, mosaicSize, actual[3])
             blockEndY == BlockEnd(y, mosaicSize, actual[4])
             block == Points(<<x, y>>, <<blockEndX, blockEndY>>)
             next == IF block = {} THEN dstImg
                     ELSE SetRGBA(dstImg, block,
                                  BlockColour(img, x, blockEndX, y, blockEndY))
         IN  BlurBlocks(next, img, Tail(origins), actual, mosaicSize)

\* The set S of integers as an increasing sequence.
RECURSIVE Ascending(_)
Ascending(S) ==
    IF S = {} THEN <<>>
    ELSE LET m == CHOOSE v \in S : \A w \in S : v <= w
         IN  <<m>> \o Ascending(S \ {m})

\* The block origins in loop order: y outer, x inner.
BlockOrigins(actual, mosaicSize) ==
    LET xs == Ascending(LoopValues(actual[1], actual[3], mosaicSize))
        ys == Ascending(LoopValues(actual[2], actual[4], mosaicSize))
    IN  [k \in 1..(Len(xs) * Len(ys)) |->
            <<xs[((k - 1) % Len(xs)) + 1], ys[((k - 1) \div Len(xs)) + 1]>>]

\* MosaicProcessor.Process, lines 157-164: dstImg, a copy of img.
CopyOf(img, store) == NewRGBA(img.min, img.max, LAMBDA x, y : At(img, x, y), store)

\* MosaicProcessor.Process, lines 167-262: one iteration of the region loop.
BlurRegion(m, img, region) ==
    LET c == ClampRegion(region, Dx(img), Dy(img))
    IN  IF c[1] >= c[3] \/ c[2] >= c[4]
        THEN [m EXCEPT !.n = @ + 1, !.region = region, !.skipped = TRUE,
                       !.nSkipped = @ + 1,
                       !.actual = <<0, 0, 0, 0>>, !.mosaicSize = 0]
        ELSE LET actual == calculateMosaicRegion(c[1], c[2], c[3], c[4],
                                                 m.MosaicPercent, m.StartDirection)
                 mosaicSize == MosaicSize(actual)
             IN  [m EXCEPT !.n = @ + 1, !.region = region, !.skipped = FALSE,
                           !.actual = actual, !.mosaicSize = mosaicSize,
                           !.dstImg = BlurBlocks(@, img, BlockOrigins(actual, mosaicSize),
                                                 actual, mosaicSize),
                           !.blurred = @ \cup Points(<<actual[1], actual[2]>>,
                                                     <<actual[3], actual[4]>>)]

\* The caller's image in SpecMosaic.
MosaicInit ==
    /\ ExecIdle
    /\ prevImg = NilImg
    /\ curImg = SourceImage(MosaicW, MosaicH, TRUE)
    /\ op = NoOp
    /\ opErr = ""
    /\ nSteps = 0
    /\ nStore = 1
    /\ mosaic = MosaicIdle
    /\ fonts = FontIdle

\* A crop (NewCutProcessorWithRegion) ahead of the mosaic: the mosaic then
\* runs on a view whose bounds need not start at (0, 0).
MosaicViewStep ==
    /\ nSteps = 0
    /\ ~mosaic.running
    /\ \E x \in 0..1, y \in 0..1 :
          Apply(CutProcess(CutProcessor(Dx(curImg) - 1, Dy(curImg) - 1, "", x, y,
                                        TRUE, FALSE),
                           curImg, nStore + 1))

\* MosaicProcessor.Process is called on the current image: dstImg is made.
MosaicBegin ==
    /\ ~mosaic.running
    /\ op.kind # "mosaic"
    /\ opErr = ""
    /\ \E percent \in {-1, 0, 2, 3, 4, 5}, direction \in Directions :
          LET p == NewMosaicProcessor(percent, direction)
          IN  mosaic' = [MosaicIdle EXCEPT !.running = TRUE,
                                          !.MosaicPercent = p.MosaicPercent,
                                          !.StartDirection = p.StartDirection,
                                          !.dstImg = CopyOf(curImg, nStore + 1)]
    /\ nStore' = nStore + 1
    /\ UNCHANGED <<execVars, fonts, prevImg, curImg, op, opErr, nSteps>>

\* The next region of p.Regions is processed.
MosaicRegionStep ==
    /\ mosaic.running
    /\ mosaic.n < MaxRegions
    /\ \E fromX \in {-1, 1, Dx(curImg) + 1}, toX \in {-1, 1, Dx(curImg) + 1},
          fromY \in {-1, 1, Dy(curImg) + 1}, toY \in {-1, 1, Dy(curImg) + 1} :
          mosaic' = BlurRegion(mosaic, curImg, <<fromX, fromY, toX, toY>>)
    /\ UNCHANGED <<execVars, fonts, prevImg, curImg, op, opErr, nSteps, nStore>>

\* The region list is exhausted: return dstImg, nil.
MosaicReturn ==
    /\ mosaic.running
    /\ prevImg' = curImg
    /\ curImg' = mosaic.dstImg
    /\ op' = [NoOp EXCEPT !.kind = "mosaic"]
    /\ opErr' = ""
    /\ nSteps' = nSteps + 1
    /\ mosaic' = [mosaic EXCEPT !.running = FALSE]
    /\ UNCHANGED <<execVars, fonts, nStore>>

MosaicNext ==
    \/ MosaicViewStep
    \/ MosaicBegin
    \/ MosaicRegionStep
    \/ MosaicReturn

SpecMosaic == MosaicInit /\ [][MosaicNext]_vars

-----------------------------------------------------------------------------
(* Properties of the executors *)

Events(kind) == SelectSeq(log, LAMBDA e : e.ev = kind)

Kinds == [i \in 1..Len(chain) |-> chain[i].kind]

Done == pc = "done"

NumContextSteps == Cardinality({i \in 1..Len(chain) : chain[i].kind \in ContextProcessorKinds})

\* The log position at which a step reported an error, 0 if none did.
FailedAt ==
    LET bad == {p \in 1..Len(log) :
                  \/ log[p].ev = "ret" /\ log[p].err # NoErr
                  \/ log[p].ev = "ctxcall" /\ chain[log[p].step].kind = "cfail"}
    IN  IF bad = {} THEN 0 ELSE CHOOSE p \in bad : \A q \in bad : p <= q

\* The chain position of the step that failed (FailedAt # 0).
FailedStep == log[FailedAt].step

\* The error the failing step itself reported.
FailedCause == IF chain[FailedStep].kind = "dfail" THEN StepErr("direct") ELSE StepErr("context")

ChainCCDC == <<"context", "context", "direct", "context">>

C2_StepsInOrder ==
    entry \in {"Process", "ProcessImage"} =>
        LET calls == Events("call")
            rets == Events("ret")
        IN  /\ Len(rets) <= Len(calls)
            /\ Len(calls) <= Len(rets) + 1
            /\ \A k \in 1..Len(calls) :
                  /\ calls[k].step = k
                  /\ calls[k].inp = IF k = 1 THEN CallerImg ELSE rets[k - 1].out
            /\ \A k \in 1..Len(rets) : rets[k].step = k
            /\ (Done /\ entry = "Process" /\ retErr = NoErr) =>
                  /\ Len(calls) = Len(chain)
                  /\ Len(rets) = Len(chain)
                  /\ result = IF chain = <<>> THEN CallerImg ELSE rets[Len(chain)].out

C2_Witness ==
    /\ Done /\ entry = "Process" /\ retErr = NoErr
    /\ Kinds = <<"direct", "context", "direct">>
    /\ result = <<1, 2, 3>>

\* C3: once a step has returned an error no further step is invoked, no
\* context is created or finalized, and the caller gets the error with a nil
\* image (nil bytes from ProcessImage).
C3_AbortOnError ==
    /\ FailedAt # 0 =>
          /\ Done
          /\ result = Nil
          /\ retErr # NoErr
          /\ \A q \in (FailedAt + 1)..Len(log) : log[q].ev = "ret"
          /\ \A q \in 1..Len(log) :
                log[q].ev \in {"call", "ctxcall"} => log[q].step <= FailedStep
    /\ (Done /\ retErr # NoErr) => result = Nil

C3_Witness ==
    /\ Done /\ FailedAt # 0
    /\ Len(chain) = 4 /\ FailedStep = 2
    /\ result = Nil /\ retErr # NoErr

C5_OneContext ==
    entry = "ContextProcess" =>
        LET creates == Events("create")
            ctxcalls == Events("ctxcall")
            finals == Events("finalize")
        IN  /\ Len(creates) = 1
            /\ log[1] = creates[1]
            /\ creates[1].seed = CallerImg
            /\ \A k \in 1..Len(ctxcalls) :
                  /\ ctxcalls[k].step = k
                  /\ ctxcalls[k].ctx = creates[1].ctx
                  /\ ctxcalls[k].seen = [j \in 1..(k - 1) |-> j]
            /\ Len(finals) <= 1
            /\ Len(finals) = 1 <=> (Done /\ retErr = NoErr)
            /\ Len(finals) = 1 =>
                  /\ log[Len(log)] = finals[1]
                  /\ Len(ctxcalls) = Len(chain)
                  /\ finals[1].ctx = creates[1].ctx
                  /\ finals[1].out = [j \in 1..Len(chain) |-> j]
                  /\ result = finals[1].out

C5_Witness ==
    /\ entry = "ContextProcess" /\ Done /\ retErr = NoErr
    /\ Len(chain) = 3
    /\ Len(Events("finalize")) = 1
    /\ Len(Events("ctxcall")) = 3

-----------------------------------------------------------------------------
(* Properties of the crop and mask processors *)

\* The last processor was a crop that returned an image.
CutDone == op.kind = "cut" /\ opErr = ""

\* The last processor was an auto-size square crop that returned an image:
\* NewCutSquareProcessor(position) or NewSquareProcessor(position).
AutoSquareDone ==
    /\ opErr = ""
    /\ \/ op.kind = "square"
       \/ /\ op.kind = "cut" /\ op.SquareMode /\ ~op.UseCustomRegion
          /\ op.Width = 0 /\ op.Height = 0

\* C6: an accepted crop request with 0 < width <= source width and
\* 0 < height <= source height returns a buffer of exactly the requested
\* width and height.
C6_CropSize ==
    (/\ CutDone
     /\ 0 < op.Width /\ op.Width <= Dx(prevImg)
     /\ 0 < op.Height /\ op.Height <= Dy(prevImg))
        => (Dx(curImg) = op.Width /\ Dy(curImg) = op.Height)

\* C7: an auto-size square crop returns a buffer whose width and height both
\* equal min(origWidth, origHeight).
C7_SquareSize ==
    AutoSquareDone
        => /\ Dx(curImg) = Dy(curImg)
           /\ Dx(curImg) = Min2(Dx(prevImg), Dy(prevImg))

Long == IF Dx(prevImg) > Dy(prevImg) THEN Dx(prevImg) ELSE Dy(prevImg)

Short == Min2(Dx(prevImg), Dy(prevImg))

Wide == Dx(prevImg) > Dy(prevImg)

\* The start position the crop computed, along the longer and the shorter axis.
LongOffset == IF Wide THEN op.x ELSE op.y

ShortOffset == IF Wide THEN op.y ELSE op.x

\* C8 (as stated): in auto-size square crop the offset along the longer axis
\* is floor((long-short)/2) for center, 0 for top and left, long-short for
\* bottom and right; the offset along the shorter axis is 0.
C8_Original ==
    (AutoSquareDone /\ op.placed)
        => /\ ShortOffset = 0
           /\ op.Position = "center" => LongOffset = (Long - Short) \div 2
           /\ op.Position \in {"top", "left"} => LongOffset = 0
           /\ op.Position \in {"bottom", "right"} => LongOffset = Long - Short

\* C8 (amended): top and bottom anchor the vertical axis only, left and
\* right the horizontal axis only.  The start position computed along the
\* longer axis is floor((long-short)/2) for center, for top and bottom on a
\* buffer wider than tall and for left and right on a buffer taller than
\* wide; it is 0 for top on a taller buffer and for left on a wider buffer,
\* and long-short for bottom on a taller buffer and for right on a wider
\* buffer.  Along the shorter axis it is 0.
C8_AnchorPerAxis ==
    (AutoSquareDone /\ op.placed)
        => /\ ShortOffset = 0
           /\ LongOffset =
                CASE op.Position \in {"top", "bottom"} /\ Wide -> (Long - Short) \div 2
                  [] op.Position \in {"left", "right"} /\ ~Wide -> (Long - Short) \div 2
                  [] op.Position = "top" /\ ~Wide -> 0
                  [] op.Position = "left" /\ Wide -> 0
                  [] op.Position = "bottom" /\ ~Wide -> Long - Short
                  [] op.Position = "right" /\ Wide -> Long - Short
                  [] OTHER -> (Long - Short) \div 2

C8_Witness ==
    /\ AutoSquareDone /\ op.placed
    /\ op.Position = "top" /\ Wide
    /\ Long - Short = 2
    /\ LongOffset = 1

\* The last processor was the circular mask.
CircleRan == op.kind = "circle"

Alpha(c) == c[4]

\* C9 (as stated): on every N x N buffer, N >= 1, the circular mask keeps the
\* alpha of pixel (N/2, N/2), gives pixel (0,0) alpha 0 and keeps the
\* dimensions; on a buffer with width # height it returns an error and no
\* image.
C9_Original ==
    (CircleRan /\ Dx(prevImg) >= 1 /\ Dy(prevImg) >= 1)
        => IF Dx(prevImg) = Dy(prevImg)
           THEN LET c == Dx(prevImg) \div 2
                IN  /\ opErr = ""
                    /\ Alpha(At(curImg, c, c)) = Alpha(At(prevImg, c, c))
                    /\ Alpha(At(curImg, 0, 0)) = 0
                    /\ curImg.min = prevImg.min /\ curImg.max = prevImg.max
           ELSE opErr # "" /\ curImg = NilImg

\* C9 (amended): the same for every N >= 2.  On a 1 x 1 buffer the single
\* pixel is both (N/2, N/2) and (0,0); it lies outside the circle and
\* becomes transparent.
C9_CircleMask ==
    (CircleRan /\ Dx(prevImg) >= 1 /\ Dy(prevImg) >= 1)
        => IF Dx(prevImg) = Dy(prevImg)
           THEN LET c == Dx(prevImg) \div 2
                IN  /\ opErr = ""
                    /\ Dx(prevImg) >= 2 =>
                          Alpha(At(curImg, c, c)) = Alpha(At(prevImg, c, c))
                    /\ Alpha(At(curImg, 0, 0)) = 0
                    /\ curImg.min = prevImg.min /\ curImg.max = prevImg.max
           ELSE opErr # "" /\ curImg = NilImg

C9_Witness ==
    /\ CircleRan /\ opErr = ""
    /\ Dx(prevImg) = 3 /\ prevImg.min = <<0, 0>>
    /\ Alpha(At(prevImg, 0, 0)) # 0
    /\ Alpha(At(curImg, 0, 0)) = 0
    /\ Alpha(At(curImg, 1, 1)) = Alpha(At(prevImg, 1, 1))
    /\ Alpha(At(curImg, 1, 1)) # 0

-----------------------------------------------------------------------------
(* Properties of the mosaic processor *)

\* dst has the bounds of src and its pixels outside the set pts are those of src.
SameOutside(dst, src, pts) ==
    /\ dst.min = src.min
    /\ dst.max = src.max
    /\ \A pt \in Points(dst.min, dst.max) \ pts : dst.pix[pt] = At(src, pt[1], pt[2])

MosaicReturned == op.kind = "mosaic" /\ ~mosaic.running

\* C10: the mosaic changes no pixel outside the blurred rectangles (the
\* clamped regions reduced by percent and direction) and returns an image
\* with the bounds of its input; the same is true of dstImg after every
\* region of the list.
C10_MosaicFrame ==
    /\ mosaic.running => SameOutside(mosaic.dstImg, curImg, mosaic.blurred)
    /\ MosaicReturned => SameOutside(curImg, prevImg, mosaic.blurred)

C10_Witness ==
    /\ MosaicReturned
    /\ mosaic.n = 2
    /\ \E pt \in Points(curImg.min, curImg.max) :
          pt \in mosaic.blurred /\ curImg.pix[pt] # prevImg.pix[pt]
    /\ \E pt \in Points(curImg.min, curImg.max) :
          /\ pt \notin mosaic.blurred
          /\ curImg.pix[pt] = prevImg.pix[pt]
          /\ curImg.pix[pt] # Transparent

\* The tile of the blurred rectangle that holds coordinate v on one axis:
\* <<start, end>>, the rectangle running over [from, to) in tiles of size.
TileOf(v, from, to, size) ==
    LET start == from + ((v - from) \div size) * size
    IN  <<start, Min2(start + size, to)>>

\* The pixels of img that the tile tx x ty covers.
Covered(img, tx, ty) ==
    Points(<<tx[1], ty[1]>>, <<tx[2], ty[2]>>) \cap Points(img.min, img.max)

RECURSIVE ChannelSum(_, _, _)
ChannelSum(img, pts, ch) ==
    IF pts = {} THEN 0
    ELSE LET pt == CHOOSE q \in pts : TRUE
         IN  Channel16(img.pix[pt][ch]) + ChannelSum(img, pts \ {pt}, ch)

\* The integer mean of channel ch over the pixels pts of img: the mean of the
\* 16-bit channel values, brought back to 8 bits.
SourceMean(img, pts, ch) == (ChannelSum(img, pts, ch) \div Cardinality(pts)) \div 256

Distance(a, b) == IF a < b THEN b - a ELSE a - b

\* A region of the list has just been blurred.
RegionBlurred == mosaic.running /\ mosaic.n > 0 /\ ~mosaic.skipped

\* The pixels of dstImg inside the rectangle blurred last.
BlurredPixels ==
    Points(<<mosaic.actual[1], mosaic.actual[2]>>, <<mosaic.actual[3], mosaic.actual[4]>>)
        \cap Points(mosaic.dstImg.min, mosaic.dstImg.max)

\* Pixel pt of dstImg has the colour of its tile: the mean of the source
\* pixels the tile covers, R, G, B moved by a jitter in [-10, 10] and clamped,
\* and every pixel of the tile has that colour.
HasTileColour(pt) ==
    LET tx == TileOf(pt[1], mosaic.actual[1], mosaic.actual[3], mosaic.mosaicSize)
        ty == TileOf(pt[2], mosaic.actual[2], mosaic.actual[4], mosaic.mosaicSize)
        tile == Covered(curImg, tx, ty)
        c == mosaic.dstImg.pix[pt]
    IN  /\ \A k \in 1..3 : \E offset \in -10..10 :
              c[k] = clampUint8(SourceMean(curImg, tile, k) + offset)
        /\ c[4] = SourceMean(curImg, tile, 4)
        /\ \A q \in tile : mosaic.dstImg.pix[q] = c

\* Pixel pt of dstImg differs from the source within the jitter range only.
NearSource(pt) ==
    /\ \A k \in 1..3 : Distance(mosaic.dstImg.pix[pt][k], curImg.pix[pt][k]) <= 10
    /\ mosaic.dstImg.pix[pt][4] = curImg.pix[pt][4]

\* C11: inside a blurred region every pixel of a tile receives the same
\* colour, R, G, B being the tile's integer mean plus a jitter in [-10, 10]
\* clamped to [0, 255] and A the tile's integer mean alpha; with percent 1.0
\* every pixel of the region differs from the source within [-10, 10] per
\* colour channel and not at all in A.
C11_TileColour ==
    RegionBlurred =>
        \A pt \in BlurredPixels :
            /\ HasTileColour(pt)
            /\ mosaic.MosaicPercent = 4 => NearSource(pt)

\* The region holds no pixel of img: it is empty or inverted once clamped to
\* the buffer, or lies entirely outside it.
EmptyInBuffer(region, img) ==
    Points(<<region[1], region[2]>>, <<region[3], region[4]>>)
        \cap Points(img.min, img.max) = {}

\* The step taken is one iteration of the region loop, on a region that is
\* empty in the buffer.
EmptyRegionStep ==
    /\ mosaic.running
    /\ mosaic'.n = mosaic.n + 1
    /\ EmptyInBuffer(mosaic'.region, curImg)

\* C12: a region that is empty or inverted after clamping to the buffer is
\* skipped: no error is returned, no pixel of dstImg changes on its account,
\* and the region loop goes on with the rest of the list.
C12_SkipEmpty ==
    [][EmptyRegionStep =>
          /\ mosaic'.dstImg = mosaic.dstImg
          /\ mosaic'.blurred \cap Points(curImg.min, curImg.max)
                = mosaic.blurred \cap Points(curImg.min, curImg.max)
          /\ mosaic'.running
          /\ opErr' = ""]_vars

\* A region was skipped, a later one was blurred, and the call returned
\* without error.
C12_Witness ==
    /\ MosaicReturned
    /\ opErr = ""
    /\ mosaic.n = 2
    /\ mosaic.nSkipped = 1
    /\ ~mosaic.skipped
    /\ EmptyInBuffer(mosaic.region, prevImg) = FALSE
    /\ \E pt \in Points(curImg.min, curImg.max) : curImg.pix[pt] # prevImg.pix[pt]

-----------------------------------------------------------------------------
(* The rounded-corner processor: RoundedCornerProcessor *)

\* NewRoundedCornerProcessor: a negative radius becomes 0.
NewRoundedCornerProcessor(radius) == [Radius |-> IF radius < 0 THEN 0 ELSE radius]

\* Mutant: the radius is limited by the width only.
CornerRadius_WidthOnly(Radius, width, height) ==
    IF Radius > width \div 2 THEN width \div 2 ELSE Radius

\* RoundedCornerProcessor.Process, lines 246-252: the radius limited to half
\* the width and half the height.
CornerRadius(Radius, width, height) ==
    LET byWidth == IF Radius > width \div 2 THEN width \div 2 ELSE Radius
    IN  IF byWidth > height \div 2 THEN height \div 2 ELSE byWidth

\* getCornerAlpha, lines 317-331: the square of the distance of (x, y) from
\* the centre of the corner circle it belongs to, -1 if (x, y) is in no
\* corner square.  radius is a whole number, so the square is an integer.
CornerDistance2(x, y, img, radius) ==
    LET left == x < img.min[1] + radius
        right == x >= img.max[1] - radius
        top == y < img.min[2] + radius
        bottom == y >= img.max[2] - radius
        dxLeft == x - (img.min[1] + radius)
        dxRight == x - (img.max[1] - radius - 1)
        dyTop == y - (img.min[2] + radius)
        dyBottom == y - (img.max[2] - radius - 1)
    IN  IF left /\ top THEN dxLeft * dxLeft + dyTop * dyTop
        ELSE IF right /\ top THEN dxRight * dxRight + dyTop * dyTop
        ELSE IF left /\ bottom THEN dxLeft * dxLeft + dyBottom * dyBottom
        ELSE IF right /\ bottom THEN dxRight * dxRight + dyBottom * dyBottom
        ELSE -1

\* Mutant: a hard edge, no fading band beyond the radius.
CornerCase_Hard(distance2, radius) ==
    IF distance2 = -1 \/ distance2 <= radius * radius THEN "full" ELSE "none"

\* getCornerAlpha, lines 333-338, with fadeWidth = 1.5, as a case:
\* "full" (1.0), "fade" (1.0 - (distance - radius) / 1.5, which is > 0) or
\* "none" (0.0).  distance <= radius + 1.5 is decided on the squares,
\* scaled by 4.
CornerCase(distance2, radius) ==
    IF distance2 = -1 \/ distance2 <= radius * radius THEN "full"
    ELSE IF 4 * distance2 <= (2 * radius + 3) * (2 * radius + 3) THEN "fade"
    ELSE "none"

\* uint8(float64(a) * alpha) in the fade band: the largest k with
\* k <= a * (2*radius + 3 - 2*sqrt(distance2)) / 3.
FadedAlpha(a, distance2, radius) ==
    LET fits(k) == /\ 3 * k <= a * (2 * radius + 3)
                   /\ 4 * a * a * distance2
                         <= (a * (2 * radius + 3) - 3 * k) * (a * (2 * radius + 3) - 3 * k)
    IN  CHOOSE k \in 0..a : fits(k) /\ \A j \in (k + 1)..a : ~fits(j)

\* RoundedCornerProcessor.Process, lines 258-267: the pixel written at (x, y).
CornerPixel(img, x, y, radius) ==
    LET kind == CornerCase(CornerDistance2(x, y, img, radius), radius)
        c == At(img, x, y)
    IN  IF kind = "full" THEN c
        ELSE IF kind = "fade"
        THEN <<c[1], c[2], c[3],
               FadedAlpha(c[4], CornerDistance2(x, y, img, radius), radius)>>
        ELSE Transparent

\* RoundedCornerProcessor.Process
RoundedCorner(p, img, store) ==
    LET radius == CornerRadius(p.Radius, Dx(img), Dy(img))
        done == ([kind |-> "corner", radius |-> radius, Radius |-> p.Radius] @@ NoOp)
    IN  IF p.Radius <= 0
        THEN [img |-> NewRGBA(img.min, img.max, LAMBDA x, y : At(img, x, y), store),
              err |-> "", op |-> done]
        ELSE [img |-> NewRGBA(img.min, img.max,
                              LAMBDA x, y : CornerPixel(img, x, y, radius), store),
              err |-> "", op |-> done]

\* The caller's image in SpecCorner: any size up to MaxCorner x MaxCorner, its
\* bounds starting at (0, 0) or at (1, 2).
CornerInit ==
    /\ ExecIdle
    /\ prevImg = NilImg
    /\ \E w \in 1..MaxCorner, h \in 1..MaxCorner, origin \in {<<0, 0>>, <<1, 2>>} :
          curImg = NewRGBA(origin, <<origin[1] + w, origin[2] + h>>,
                           LAMBDA x, y : SourceColour(x, y), 1)
    /\ op = NoOp
    /\ opErr = ""
    /\ nSteps = 0
    /\ nStore = 1
    /\ mosaic = MosaicIdle
    /\ fonts = FontIdle

\* A RoundedCornerProcessor made by NewRoundedCornerProcessor.
RoundedCornerStep ==
    /\ nSteps = 0
    /\ \E radius \in -1..(MaxCorner \div 2 + 2) :
          Apply(RoundedCorner(NewRoundedCornerProcessor(radius), curImg, nStore + 1))

\* A RoundedCornerProcessor whose Radius field the caller has set.
RoundedCornerFieldStep ==
    /\ nSteps = 0
    /\ \E Radius \in {-2, -1} :
          Apply(RoundedCorner([Radius |-> Radius], curImg, nStore + 1))

CornerNext ==
    \/ RoundedCornerStep
    \/ RoundedCornerFieldStep

SpecCorner == CornerInit /\ [][CornerNext]_vars

-----------------------------------------------------------------------------
(* Properties of the rounded-corner processor *)

CornerRan == op.kind = "corner"

\* The output the processor gives for the same input and radius r.
CornerOutput(r) == RoundedCorner([Radius |-> r], prevImg, curImg.store).img

\* C13: with radius 0 or negative the output has the bounds and every pixel
\* of the input; a radius greater than min(W, H)/2 gives no error and the
\* output of radius min(W/2, H/2).
C13_RadiusLimits ==
    CornerRan =>
        /\ opErr = ""
        /\ op.Radius <= 0 =>
              /\ curImg.min = prevImg.min
              /\ curImg.max = prevImg.max
              /\ curImg.pix = prevImg.pix
        /\ 2 * op.Radius > Min2(Dx(prevImg), Dy(prevImg)) =>
              curImg = CornerOutput(Min2(Dx(prevImg) \div 2, Dy(prevImg) \div 2))

C13_Witness ==
    /\ CornerRan
    /\ Dx(prevImg) = 9 /\ Dy(prevImg) = 6
    /\ op.Radius = 5
    /\ op.radius = 3
    /\ curImg = CornerOutput(3)
    /\ curImg # CornerOutput(2)
    /\ curImg.pix # prevImg.pix

\* The four corner pixels of the buffer and its centre pixel.
CornerPoints(img) ==
    {<<img.min[1], img.min[2]>>, <<img.max[1] - 1, img.min[2]>>,
     <<img.min[1], img.max[2] - 1>>, <<img.max[1] - 1, img.max[2] - 1>>}

CentrePoint(img) == <<img.min[1] + Dx(img) \div 2, img.min[2] + Dy(img) \div 2>>

\* C14 (as stated): for every radius > 0 and every buffer the four corner
\* pixels come out fully transparent and the centre pixel keeps its source
\* colour and alpha.
C14_Original ==
    (CornerRan /\ op.Radius > 0) =>
        /\ \A pt \in CornerPoints(prevImg) : Alpha(curImg.pix[pt]) = 0
        /\ curImg.pix[CentrePoint(prevImg)] = prevImg.pix[CentrePoint(prevImg)]

\* C14 (amended): with r the radius limited to half the width and half the
\* height, the four corner pixels come out fully transparent when r >= 4;
\* for r = 1, 2, 3 a corner pixel lies inside the 1.5-pixel fading band and
\* keeps part of its alpha (a colour of alpha >= 6 stays visible, its colour
\* channels unchanged); for r = 0 the buffer is unchanged.  The centre pixel
\* keeps its source colour and alpha on every buffer but the 2 x 2 one.
C14_CornersAndCentre ==
    (CornerRan /\ op.Radius > 0) =>
        /\ op.radius = Min2(op.Radius, Min2(Dx(prevImg) \div 2, Dy(prevImg) \div 2))
        /\ op.radius >= 4 =>
              \A pt \in CornerPoints(prevImg) : Alpha(curImg.pix[pt]) = 0
        /\ op.radius \in 1..3 =>
              \A pt \in CornerPoints(prevImg) :
                  /\ Alpha(prevImg.pix[pt]) >= 1 =>
                        Alpha(curImg.pix[pt]) < Alpha(prevImg.pix[pt])
                  /\ Alpha(prevImg.pix[pt]) >= 6 =>
                        /\ Alpha(curImg.pix[pt]) > 0
                        /\ \A k \in 1..3 : curImg.pix[pt][k] = prevImg.pix[pt][k]
        /\ op.radius = 0 => curImg.pix = prevImg.pix
        /\ ~(Dx(prevImg) = 2 /\ Dy(prevImg) = 2) =>
              curImg.pix[CentrePoint(prevImg)] = prevImg.pix[CentrePoint(prevImg)]

C14_Witness ==
    /\ CornerRan
    /\ op.Radius = 4 /\ op.radius = 4
    /\ Dx(prevImg) = 8 /\ Dy(prevImg) = 8
    /\ \A pt \in CornerPoints(prevImg) :
          Alpha(prevImg.pix[pt]) > 0 /\ Alpha(curImg.pix[pt]) = 0
    /\ curImg.pix[CentrePoint(prevImg)] = prevImg.pix[CentrePoint(prevImg)]
    /\ Alpha(curImg.pix[CentrePoint(prevImg)]) > 0

-----------------------------------------------------------------------------
(* The zoom processor: ZoomProcessor *)

ZoomModes == {"exact", "ratio", "width", "height", "max", "min"}

\* The float64 ratios a caller passes, as fractions <<numerator, denominator>>.
ZoomRatios ==
    {<<1, 4>>, <<1, 3>>, <<1, 2>>, <<2, 3>>, <<1, 1>>, <<3, 2>>, <<2, 1>>, <<3, 1>>,
     <<4, 1>>, <<0, 1>>, <<-1, 2>>}

\* 1/r for r # 0.
Inverse(r) == IF r[1] > 0 THEN <<r[2], r[1]>> ELSE <<-r[2], -r[1]>>

\* int(math.Round(n/d)) for d > 0: halves are rounded away from zero.  For the
\* ratios of the ratio mode used here the float64 product rounds as the
\* fraction does.
GoRound(n, d) ==
    IF n >= 0 THEN (2 * n + d) \div (2 * d) ELSE -((2 * (-n) + d) \div (2 * d))

\* int(math.Round(float64(length) * ratio))
ScaleBy(length, r) == GoRound(length * r[1], r[2])

\* float64 arithmetic on positive numbers.  A float64 is kept as [e, m]:
\* e the exponent of its leading mantissa bit and m = <<m1, m2, m3, m4>> the
\* 52 bits after that bit in four pieces of 13 bits; its value is
\* (2^52 + m1 * 2^39 + m2 * 2^26 + m3 * 2^13 + m4) * 2^(e - 52).

\* floor(log2(n / d)) for n, d > 0.
RECURSIVE Log2Floor(_, _)
Log2Floor(n, d) ==
    IF n >= 2 * d THEN Log2Floor(n, 2 * d) + 1
    ELSE IF n >= d THEN 0
    ELSE Log2Floor(2 * n, d) - 1

RECURSIVE Pow2(_)
Pow2(k) == IF k = 0 THEN 1 ELSE 2 * Pow2(k - 1)

\* The one element of a set: {F(v) : v \in {e}} computes e once for all the
\* places where F uses it.
The(S) == CHOOSE v \in S : TRUE

\* Round to nearest, ties to even: the mantissa bits kept, up tells whether
\* what was cut off rounds up.
Nearest(e, kept, up) ==
    IF ~up THEN [m |-> kept, e |-> e]
    ELSE IF kept[4] < 8191 THEN [m |-> <<kept[1], kept[2], kept[3], kept[4] + 1>>, e |-> e]
    ELSE IF kept[3] < 8191 THEN [m |-> <<kept[1], kept[2], kept[3] + 1, 0>>, e |-> e]
    ELSE IF kept[2] < 8191 THEN [m |-> <<kept[1], kept[2] + 1, 0, 0>>, e |-> e]
    ELSE IF kept[1] < 8191 THEN [m |-> <<kept[1] + 1, 0, 0, 0>>, e |-> e]
    ELSE [m |-> <<0, 0, 0, 0>>, e |-> e + 1]

\* float64(n) / float64(d) for integers 0 < n, d < 2^9, by long division.
Quotient64(n, d) ==
    LET e == Log2Floor(n, d)
        a == IF e < 0 THEN n * Pow2(-e) ELSE n
        b == IF e > 0 THEN d * Pow2(e) ELSE d
        t1 == (a - b) * 8192
        t2 == (t1 % b) * 8192
        t3 == (t2 % b) * 8192
        t4 == (t3 % b) * 8192
        rest == t4 % b
    IN  The({Nearest(e, kept, 2 * rest > b \/ (2 * rest = b /\ kept[4] % 2 = 1)) :
                 kept \in {<<t1 \div b, t2 \div b, t3 \div b, t4 \div b>>}})

\* float64(k) * f for an integer 0 < k < 2^12.
Shifted(p, g, e) ==
    LET cut == Pow2(g)
        up == 8192 \div cut
        rest == p[5] % cut
    IN  The({Nearest(e + g, kept, 2 * rest > cut \/ (2 * rest = cut /\ kept[4] % 2 = 1)) :
                 kept \in {<<(p[1] % cut) * up + ((p[2] % 8192) \div cut),
                             (p[2] % cut) * up + ((p[3] % 8192) \div cut),
                             (p[3] % cut) * up + ((p[4] % 8192) \div cut),
                             (p[4] % cut) * up + ((p[5] % 8192) \div cut)>>}})

Product64(k, f) ==
    LET p4 == f.m[4] * k
        p3 == f.m[3] * k + (p4 \div 8192)
        p2 == f.m[2] * k + (p3 \div 8192)
        p1 == f.m[1] * k + (p2 \div 8192)
        p0 == k + (p1 \div 8192)
    IN  The({Shifted(p, g, f.e) : p \in {<<p0, p1, p2, p3, p4>>},
                                  g \in {Log2Floor(p0, 1)}})

\* int(math.Round(f)) for f < 2^25: halves are rounded away from zero.
Round64(f) ==
    LET top == (8192 + f.m[1]) * 8192 + f.m[2]
    IN  IF f.e < -1 THEN 0
        ELSE (top \div Pow2(26 - f.e)) + ((top \div Pow2(25 - f.e)) % 2)

\* int(math.Round(float64(length) * ratio)) with
\* ratio := float64(r[1]) / float64(r[2]), length > 0 and r[2] > 0.
ScaleByFloat(length, r) ==
    IF r[1] = 0 THEN 0
    ELSE IF r[1] < 0
    THEN -The({Round64(f) : f \in {Product64(length, ratio) :
                                       ratio \in {Quotient64(-r[1], r[2])}}})
    ELSE The({Round64(f) : f \in {Product64(length, ratio) :
                                      ratio \in {Quotient64(r[1], r[2])}}})

\* Mutant: in ratio mode the height is computed from the width.
calculateTargetSize_WidthTwice(p, origWidth, origHeight) ==
    IF p.Mode = "ratio"
    THEN <<ScaleBy(origWidth, p.Ratio), ScaleBy(origWidth, p.Ratio)>>
    ELSE <<p.Width, p.Height>>

\* ZoomProcessor.calculateTargetSize.  In the size modes the ratio is
\* float64(size) / float64(orig).
calculateTargetSize(p, origWidth, origHeight) ==
    CASE p.Mode = "ratio"  -> <<ScaleBy(origWidth, p.Ratio), ScaleBy(origHeight, p.Ratio)>>
      [] p.Mode = "width"  -> <<p.Width, ScaleByFloat(origHeight, <<p.Width, origWidth>>)>>
      [] p.Mode = "height" -> <<ScaleByFloat(origWidth, <<p.Height, origHeight>>), p.Height>>
      [] p.Mode = "max" ->
            LET ratio == IF origWidth >= origHeight THEN <<p.Width, origWidth>>
                         ELSE <<p.Height, origHeight>>
            IN  <<ScaleByFloat(origWidth, ratio), ScaleByFloat(origHeight, ratio)>>
      [] p.Mode = "min" ->
            LET ratio == IF origWidth <= origHeight THEN <<p.Width, origWidth>>
                         ELSE <<p.Height, origHeight>>
            IN  <<ScaleByFloat(origWidth, ratio), ScaleByFloat(origHeight, ratio)>>
      [] OTHER -> <<p.Width, p.Height>>

\* &ZoomProcessor{...}: NewZoomProcessor, NewZoomRatioProcessor,
\* NewZoomWidthProcessor, NewZoomHeightProcessor, NewZoomMaxProcessor,
\* NewZoomMinProcessor.
ZoomProcessor(mode, width, height, ratio) ==
    [Width |-> width, Height |-> height, Mode |-> mode, Ratio |-> ratio]

\* The colour the scaler (golang.org/x/image/draw) writes: not modelled.
ScaledColour == <<0, 0, 0, 0>>

\* ZoomProcessor.Process.  before is what the previous step was (its ratio and
\* the size of its input) when that step was a zoom by ratio.
ZoomProcess(p, img, store, before) ==
    LET target == calculateTargetSize(p, Dx(img), Dy(img))
        done == ([kind |-> "zoom", Width |-> p.Width, Height |-> p.Height,
                  width |-> target[1], height |-> target[2],
                  Mode |-> p.Mode, Ratio |-> p.Ratio, before |-> before]
                 @@ NoOp)
    IN  IF target[1] <= 0 \/ target[2] <= 0
        THEN [img |-> NilImg, err |-> "invalid zoom size", op |-> done]
        ELSE [img |-> NewRGBA(<<0, 0>>, target, LAMBDA x, y : ScaledColour, store),
              err |-> "", op |-> done]

\* The zoom by ratio that came just before, <<>> if there was none.
LastZoom ==
    IF op.kind = "zoom" /\ op.Mode = "ratio"
    THEN <<op.Ratio, Dx(prevImg), Dy(prevImg)>>
    ELSE <<>>

\* The caller's image in SpecZoom.
ZoomInit ==
    /\ ExecIdle
    /\ prevImg = NilImg
    /\ \E w \in 1..MaxZoom, h \in 1..MaxZoom : curImg = SourceImage(w, h, TRUE)
    /\ op = NoOp
    /\ opErr = ""
    /\ nSteps = 0
    /\ nStore = 1
    /\ mosaic = MosaicIdle
    /\ fonts = FontIdle

\* The output of a zoom is kept to 4 * MaxZoom pixels a side.
ZoomFits(r) == Dx(r.img) <= 4 * MaxZoom /\ Dy(r.img) <= 4 * MaxZoom

\* A zoom by ratio (NewZoomRatioProcessor).
ZoomRatioStep ==
    /\ CanStep
    /\ \E ratio \in ZoomRatios :
          LET r == ZoomProcess(ZoomProcessor("ratio", 0, 0, ratio), curImg,
                               nStore + 1, LastZoom)
          IN  ZoomFits(r) /\ Apply(r)

\* A zoom to a size (NewZoomProcessor, NewZoomWidthProcessor,
\* NewZoomHeightProcessor, NewZoomMaxProcessor, NewZoomMinProcessor).
ZoomSizeStep ==
    /\ CanStep
    /\ \E mode \in ZoomModes \ {"ratio"}, size \in 0..MaxZoom :
          LET r == ZoomProcess(ZoomProcessor(mode,
                                             IF mode = "height" THEN 0 ELSE size,
                                             IF mode = "width" THEN 0 ELSE size,
                                             <<0, 1>>),
                               curImg, nStore + 1, LastZoom)
          IN  ZoomFits(r) /\ Apply(r)

ZoomNext ==
    \/ ZoomRatioStep
    \/ ZoomSizeStep

SpecZoom == ZoomInit /\ [][ZoomNext]_vars

\* The caller's image in SpecFit.
FitInit ==
    /\ ExecIdle
    /\ prevImg = NilImg
    /\ \E w \in 1..MaxFit, h \in 1..MaxFit : curImg = SourceImage(w, h, TRUE)
    /\ op = NoOp
    /\ opErr = ""
    /\ nSteps = 0
    /\ nStore = 1
    /\ mosaic = MosaicIdle
    /\ fonts = FontIdle

\* NewZoomMaxProcessor(size)
FitMaxStep ==
    /\ nSteps = 0
    /\ \E size \in -1..MaxFitSize :
          Apply(ZoomProcess(ZoomProcessor("max", size, size, <<0, 1>>), curImg,
                            nStore + 1, <<>>))

\* NewZoomMinProcessor(size)
FitMinStep ==
    /\ nSteps = 0
    /\ \E size \in -1..MaxFitSize :
          Apply(ZoomProcess(ZoomProcessor("min", size, size, <<0, 1>>), curImg,
                            nStore + 1, <<>>))

FitNext ==
    \/ FitMaxStep
    \/ FitMinStep

SpecFit == FitInit /\ [][FitNext]_vars

-----------------------------------------------------------------------------
(* Properties of the zoom processor *)

\* The last two steps were a zoom by ratio r and a zoom by ratio 1/r, and
\* both returned an image.
RoundTrip ==
    /\ op.kind = "zoom" /\ op.Mode = "ratio" /\ opErr = ""
    /\ op.before # <<>>
    /\ op.before[1][1] # 0
    /\ op.Ratio = Inverse(op.before[1])

\* The width and height before the round trip.
OrigSize == <<op.before[2], op.before[3]>>

-----------------------------------------------------------------------------
(* The overlay processor: OverlayProcessor *)

\* Opacity is counted in quarters (4 is 1.0) and Scale in halves (2 is 1.0);
\* both are exact in float64.
OverlayPositions ==
    {"top-left", "top-right", "bottom-left", "bottom-right", "center",
     "top-center", "bottom-center", "left-center", "right-center"}

\* Mutant: an out-of-range opacity is kept as given.
OverlayDefaults_Unchecked(opacity, scale) ==
    [Opacity |-> opacity, Scale |-> IF scale <= 0 THEN 2 ELSE scale]

\* NewOverlayProcessor, NewOverlayProcessorWithPosition, lines 144-150 and
\* 163-169: an opacity outside [0, 1] becomes 1.0, a scale <= 0 becomes 1.0.
OverlayDefaults(opacity, scale) ==
    [Opacity |-> IF opacity < 0 \/ opacity > 4 THEN 4 ELSE opacity,
     Scale |-> IF scale <= 0 THEN 2 ELSE scale]

\* &OverlayProcessor{...}
OverlayProcessor(overlayImage, x, y, position, opacity, scale) ==
    [Position |-> position, X |-> x, Y |-> y,
     Opacity |-> OverlayDefaults(opacity, scale).Opacity,
     Scale |-> OverlayDefaults(opacity, scale).Scale,
     OverlayImage |-> overlayImage]

\* OverlayProcessor.Process, lines 65-78: the overlay on a canvas of
\* int(width * scale) x int(height * scale); the image itself is drawn at
\* (0, 0) as it is.
ScaleOverlay(overlayImg, Scale) ==
    IF Scale # 0 /\ Scale # 2
    THEN NewRGBA(<<0, 0>>, <<GoDiv(Dx(overlayImg) * Scale, 2), GoDiv(Dy(overlayImg) * Scale, 2)>>,
                 LAMBDA x, y : At(overlayImg, x, y), 0)
    ELSE overlayImg

\* OverlayProcessor.Process, lines 83-105: the top-left point of the overlay,
\* before int().
OverlayPlace(p, width, height, overlayWidth, overlayHeight) ==
    CASE p.Position = "top-left" -> <<0, 0>>
      [] p.Position = "top-right" -> <<2 * (width - overlayWidth), 0>>
      [] p.Position = "bottom-left" -> <<0, 2 * (height - overlayHeight)>>
      [] p.Position = "bottom-right" ->
            <<2 * (width - overlayWidth), 2 * (height - overlayHeight)>>
      [] p.Position = "center" -> <<width - overlayWidth, height - overlayHeight>>
      [] p.Position = "top-center" -> <<width - overlayWidth, 0>>
      [] p.Position = "bottom-center" -> <<width - overlayWidth, 2 * (height - overlayHeight)>>
      [] p.Position = "left-center" -> <<0, height - overlayHeight>>
      [] p.Position = "right-center" -> <<2 * (width - overlayWidth), height - overlayHeight>>
      [] OTHER -> <<2 * p.X, 2 * p.Y>>

\* OverlayProcessor.Process, lines 121-128: the colour with its 16-bit alpha
\* multiplied by the opacity, stored in an RGBA image (8 bits a channel).
AdjustAlpha(c, Opacity) ==
    <<c[1], c[2], c[3], (GoDiv(Channel16(c[4]) * Opacity, 4) \div 256) % 256>>

\* OverlayProcessor.Process, lines 110-134: the overlay image that is drawn.
AdjustOverlay(overlayImg, Opacity) ==
    IF Opacity > 0 /\ Opacity < 4
    THEN NewRGBA(overlayImg.min, overlayImg.max,
                 LAMBDA x, y : AdjustAlpha(At(overlayImg, x, y), Opacity), 0)
    ELSE overlayImg

\* dc.DrawImage: source colour s composed over destination colour d, as
\* image/draw does for 8-bit premultiplied colours.
Over(d, s) ==
    [k \in 1..4 |->
        (((d[k] * (65535 - Channel16(s[4]))) \div 255 + Channel16(s[k])) \div 256) % 256]

\* OverlayProcessor.Process
OverlayProcess(p, img, store) ==
    LET width == Dx(img)
        height == Dy(img)
        failedOp == ([kind |-> "overlay", x |-> 0, y |-> 0,
                      Position |-> p.Position, X |-> p.X, Y |-> p.Y,
                      Opacity |-> p.Opacity, Scale |-> p.Scale,
                      overlay |-> p.OverlayImage, drawn |-> NilImg]
                     @@ NoOp)
    IN  IF p.OverlayImage = NilImg
        THEN [img |-> NilImg, err |-> "no overlay image", op |-> failedOp]
        ELSE LET scaled == ScaleOverlay(p.OverlayImage, p.Scale)
                 place == OverlayPlace(p, width, height, Dx(scaled), Dy(scaled))
                 x == GoDiv(place[1], 2)
                 y == GoDiv(place[2], 2)
                 drawn == AdjustOverlay(scaled, p.Opacity)
             IN  [img |-> NewRGBA(<<0, 0>>, <<width, height>>,
                                  LAMBDA i, j :
                                      IF <<i - x, j - y>> \in Points(drawn.min, drawn.max)
                                      THEN Over(At(img, i, j), At(drawn, i - x, j - y))
                                      ELSE At(img, i, j),
                                  store),
                  err |-> "",
                  op |-> [failedOp EXCEPT !.drawn = drawn, !.x = x, !.y = y]]

\* The overlay images of SpecOverlay: none, a fully opaque one, one with
\* alpha below 255.
OpaqueColour(x, y) == <<200 + x, 100 + y, 50, 255>>

OverlayImages ==
    {NilImg,
     NewRGBA(<<0, 0>>, <<2, 2>>, LAMBDA x, y : OpaqueColour(x, y), 0),
     NewRGBA(<<0, 0>>, <<2, 1>>, LAMBDA x, y : <<3 * x, 2, 1, 3 * x + 3>>, 0)}

\* The caller's base image in SpecOverlay, its bounds starting at (0, 0).
OverlayInit ==
    /\ ExecIdle
    /\ prevImg = NilImg
    /\ \E w \in 1..MaxOverlay, h \in 1..MaxOverlay : curImg = SourceImage(w, h, TRUE)
    /\ op = NoOp
    /\ opErr = ""
    /\ nSteps = 0
    /\ nStore = 1
    /\ mosaic = MosaicIdle
    /\ fonts = FontIdle

\* NewOverlayProcessor(overlayImage, x, y, opacity, scale)
OverlayStep ==
    /\ nSteps = 0
    /\ \E overlayImage \in OverlayImages, x \in -1..1, y \in 0..1,
          opacity \in -1..5, scale \in {-1, 0, 1, 2, 4} :
          Apply(OverlayProcess(OverlayProcessor(overlayImage, x, y, "", opacity, scale),
                               curImg, nStore + 1))

\* NewOverlayProcessorWithPosition(overlayImage, position, opacity, scale)
OverlayPositionStep ==
    /\ nSteps = 0
    /\ \E overlayImage \in OverlayImages, position \in OverlayPositions,
          opacity \in -1..5, scale \in {0, 2} :
          Apply(OverlayProcess(OverlayProcessor(overlayImage, 0, 0, position, opacity, scale),
                               curImg, nStore + 1))

OverlayNext ==
    \/ OverlayStep
    \/ OverlayPositionStep

SpecOverlay == OverlayInit /\ [][OverlayNext]_vars

-----------------------------------------------------------------------------
(* Properties of the overlay processor *)

\* The last step was an overlay that returned an image.
OverlayDone == op.kind = "overlay" /\ opErr = ""

\* The overlay image as it is before the opacity is applied.
OverlaySource == ScaleOverlay(op.overlay, op.Scale)

\* C16: with an opacity o < 1, o = 0 included, the alpha of every overlay
\* pixel is multiplied by o before the overlay is drawn (floor(alpha * 0.5)
\* for o = 0.5), and with o = 0 the overlay contributes nothing to the base
\* image.
C16_OverlayOpacity ==
    (OverlayDone /\ op.Opacity < 4) =>
        /\ \A pt \in Points(op.drawn.min, op.drawn.max) :
              Alpha(op.drawn.pix[pt]) = (Alpha(OverlaySource.pix[pt]) * op.Opacity) \div 4
        /\ op.Opacity = 0 =>
              \A pt \in Points(curImg.min, curImg.max) : curImg.pix[pt] = prevImg.pix[pt]

-----------------------------------------------------------------------------
(* The font cache: LoadFont, LoadNotoSansSCVariableFontWght *)

\* The two versions of the loader in the repository.
FontSources == {"font.go", "part_005"}

\* The fonts a caller can ask for: font.go has LoadNotoSansSCVariableFontWght
\* and LoadHarmonyOSSansSCBlack, part_005 only the former.
FontsOf(source) ==
    IF source = "font.go" THEN FontSlots ELSE {"notoSansSCWghtFont"}

\* LoadHarmonyOSSansSCBlack passes an empty downloadUrl.
HasDownloadUrl(want) == want = "notoSansSCWghtFont"

\* fonts.file[s]: a file that parses as a font exists at the local path of s.
FontInit ==
    /\ ExecIdle
    /\ prevImg = NilImg
    /\ curImg = NilImg
    /\ op = NoOp
    /\ opErr = ""
    /\ nSteps = 0
    /\ nStore = 0
    /\ mosaic = MosaicIdle
    /\ \E source \in FontSources, file \in [FontSlots -> BOOLEAN] :
          fonts = [FontIdle EXCEPT !.source = source, !.file = file]

FontFrame == UNCHANGED <<execVars, imgVars>>

\* loadFontMutex.Lock() at the start of a call: blocks while the mutex is held.
FontLock(t) ==
    /\ ~fonts.crashed
    /\ fonts.g[t].pc = "idle"
    /\ fonts.g[t].calls < MaxCalls
    /\ fonts.mutex = 0
    /\ \E want \in FontsOf(fonts.source) :
          fonts' = [fonts EXCEPT !.mutex = t,
                                 !.g[t] = [pc |-> "check", want |-> want, ret |-> 0,
                                           calls |-> @.calls + 1]]
    /\ FontFrame

\* if *font != nil { return *font }
FontCheck(t) ==
    /\ fonts.g[t].pc = "check"
    /\ LET cached == fonts.slot[fonts.g[t].want]
       IN  fonts' = IF cached # 0
                    THEN [fonts EXCEPT !.g[t].pc = "unlock", !.g[t].ret = cached]
                    ELSE [fonts EXCEPT !.g[t].pc = "stat"]
    /\ FontFrame

\* The package variables a font read from the local file is stored in:
\* font.go line 62 assigns notoSansSCWghtFont whatever slot the caller
\* passed; part_005 line 52 returns the font without storing it.
StoreLocal(source, want) ==
    IF source = "font.go" THEN {"notoSansSCWghtFont"} ELSE {}

\* os.Stat, os.ReadFile, truetype.Parse on localPath.
FontReadFile(t) ==
    /\ fonts.g[t].pc = "stat"
    /\ LET want == fonts.g[t].want
           font == fonts.parsed + 1
       IN  fonts' = IF fonts.file[want]
                    THEN [fonts EXCEPT
                            !.parsed = font,
                            !.path = Append(@, want),
                            !.slot = [s \in FontSlots |->
                                        IF s \in StoreLocal(fonts.source, want)
                                        THEN font ELSE @[s]],
                            !.loads[want] = @ + 1,
                            !.g[t].pc = "unlock",
                            !.g[t].ret = font]
                    ELSE [fonts EXCEPT !.g[t].pc = "fetch"]
    /\ FontFrame

\* The download: panic without a URL; client.Get, io.ReadAll, os.WriteFile
\* (its error is dropped), truetype.Parse, *font = fontObj. A failure is a
\* panic in font.go and a returned error in part_005; the deferred Unlock
\* runs in both.
FontDownload(t) ==
    /\ fonts.g[t].pc = "fetch"
    /\ LET want == fonts.g[t].want
           font == fonts.parsed + 1
           panic == [fonts EXCEPT !.crashed = TRUE, !.mutex = 0, !.g[t].pc = "panic"]
       IN  IF ~HasDownloadUrl(want)
           THEN fonts' = panic
           ELSE \E ok \in BOOLEAN, written \in BOOLEAN :
                   fonts' = IF ok
                            THEN [fonts EXCEPT
                                    !.parsed = font,
                                    !.path = Append(@, want),
                                    !.file[want] = @ \/ written,
                                    !.slot[want] = font,
                                    !.loads[want] = @ + 1,
                                    !.g[t].pc = "unlock",
                                    !.g[t].ret = font]
                            ELSE IF fonts.source = "font.go"
                                 THEN panic
                                 ELSE [fonts EXCEPT !.g[t].pc = "unlock", !.g[t].ret = 0]
    /\ FontFrame

\* The deferred loadFontMutex.Unlock() and the return to the caller.
FontReturn(t) ==
    /\ fonts.g[t].pc = "unlock"
    /\ LET want == fonts.g[t].want
           ret == fonts.g[t].ret
       IN  fonts' = [fonts EXCEPT
                       !.mutex = 0,
                       !.g[t].pc = "idle",
                       !.returned[want] = IF ret # 0 THEN @ \cup {ret} ELSE @]
    /\ FontFrame

FontNext ==
    \/ \E t \in Goroutines : FontLock(t)
    \/ \E t \in Goroutines : FontCheck(t)
    \/ \E t \in Goroutines : FontReadFile(t)
    \/ \E t \in Goroutines : FontDownload(t)
    \/ \E t \in Goroutines : FontReturn(t)

SpecFont == FontInit /\ [][FontNext]_vars

-----------------------------------------------------------------------------
(* font.go, watermark.go: the default font.  In a goroutine's record ret is *)
(* the font in hand (the argument of SetDefaultFont, the value read) and    *)
(* want tells how its last call ended.                                      *)

\* The fonts a caller passes to SetDefaultFont: nil and two font objects.
GivenFonts == 0..2

DefaultInit ==
    /\ ExecIdle
    /\ prevImg = NilImg
    /\ curImg = NilImg
    /\ op = NoOp
    /\ opErr = ""
    /\ nSteps = 0
    /\ nStore = 0
    /\ mosaic = MosaicIdle
    /\ fonts = FontIdle

\* A goroutine calls SetDefaultFont, GetDefaultFont or
\* WatermarkProcessor.Process (with no FontFace of its own); none of them
\* takes a lock.
DefaultCall(t) ==
    /\ fonts.g[t].pc = "idle"
    /\ fonts.g[t].calls < MaxCalls
    /\ \/ \E font \in GivenFonts :
             fonts' = [fonts EXCEPT !.g[t] = [pc |-> "set", want |-> "", ret |-> font,
                                              calls |-> @.calls + 1]]
       \/ \E call \in {"get", "watermark"} :
             fonts' = [fonts EXCEPT !.g[t] = [pc |-> call, want |-> "", ret |-> 0,
                                              calls |-> @.calls + 1]]
    /\ FontFrame

\* SetDefaultFont: defaultFont = font
SetDefaultFont(t) ==
    /\ fonts.g[t].pc = "set"
    /\ fonts' = [fonts EXCEPT !.defaultFont = fonts.g[t].ret,
                              !.g[t].pc = "idle", !.g[t].want = "set"]
    /\ FontFrame

\* GetDefaultFont: if defaultFont == nil { return nil, error }
GetDefaultFontTest(t) ==
    /\ fonts.g[t].pc = "get"
    /\ fonts' = IF fonts.defaultFont = 0
                THEN [fonts EXCEPT !.g[t].pc = "idle", !.g[t].want = "error"]
                ELSE [fonts EXCEPT !.g[t].pc = "return"]
    /\ FontFrame

\* GetDefaultFont: return defaultFont, nil
GetDefaultFontReturn(t) ==
    /\ fonts.g[t].pc = "return"
    /\ fonts' = [fonts EXCEPT !.g[t].pc = "idle", !.g[t].want = "font",
                              !.g[t].ret = fonts.defaultFont]
    /\ FontFrame

\* WatermarkProcessor.Process: else if defaultFont != nil; otherwise the
\* basic font is used.
WatermarkFontTest(t) ==
    /\ fonts.g[t].pc = "watermark"
    /\ fonts' = IF fonts.defaultFont = 0
                THEN [fonts EXCEPT !.g[t].pc = "idle", !.g[t].want = "basicfont"]
                ELSE [fonts EXCEPT !.g[t].pc = "face"]
    /\ FontFrame

\* WatermarkProcessor.Process: truetype.NewFace(defaultFont, ...)
WatermarkNewFace(t) ==
    /\ fonts.g[t].pc = "face"
    /\ fonts' = [fonts EXCEPT !.g[t].pc = "idle", !.g[t].want = "face",
                              !.g[t].ret = fonts.defaultFont]
    /\ FontFrame

DefaultNext ==
    \/ \E t \in Goroutines : DefaultCall(t)
    \/ \E t \in Goroutines : SetDefaultFont(t)
    \/ \E t \in Goroutines : GetDefaultFontTest(t)
    \/ \E t \in Goroutines : GetDefaultFontReturn(t)
    \/ \E t \in Goroutines : WatermarkFontTest(t)
    \/ \E t \in Goroutines : WatermarkNewFace(t)

SpecDefault == DefaultInit /\ [][DefaultNext]_vars

-----------------------------------------------------------------------------
(* Properties of the font cache *)

\* The mutex serialises the calls: at most one goroutine is past Lock.
FontMutualExclusion ==
    Cardinality({t \in Goroutines : fonts.g[t].pc \in {"check", "stat", "fetch", "unlock"}}) <= 1

\* C17: under every interleaving of concurrent callers for one cache slot
\* the font is loaded (file read or download) at most once, and all callers
\* receive the same font object.
C17_LoadOnce ==
    \A s \in FontSlots :
        /\ fonts.loads[s] <= 1
        /\ Cardinality(fonts.returned[s]) <= 1

\* A font was loaded for slot s: read from its file or downloaded.
LoadedFor(s) == fonts.loads[s] > 0

\* C29: the cache slots are independent: each slot is empty or holds the
\* font loaded for its own path, a slot loaded once is non-empty afterwards,
\* and a load for one slot never changes what a call for another returns
\* (every font a call for slot s returned was loaded from the path of s).
C29_SlotsIndependent ==
    \A s \in FontSlots :
        /\ fonts.slot[s] = 0 \/ fonts.path[fonts.slot[s]] = s
        /\ LoadedFor(s) => fonts.slot[s] # 0
        /\ \A f \in fonts.returned[s] : fonts.path[f] = s

\* The goroutine's next step writes defaultFont, reads it.
WritesDefault(t) == fonts.g[t].pc = "set"

ReadsDefault(t) == fonts.g[t].pc \in {"get", "return", "watermark", "face"}

\* C30: the default font is never written by SetDefaultFont while another
\* goroutine reads or writes it, unless a lock orders the two accesses (an
\* access is ordered only if the goroutine holds loadFontMutex).
C30_NoRace ==
    \A t, u \in Goroutines :
        (t # u /\ WritesDefault(t) /\ (ReadsDefault(u) \/ WritesDefault(u)))
            => (fonts.mutex = t \/ fonts.mutex = u)

-----------------------------------------------------------------------------
(* The constructors that check a percent, an opacity or a scale *)

\* NewWatermarkProcessor: an opacity outside [0, 1] becomes 0.5. Opacities
\* are counted in quarters.
NewWatermarkProcessor(opacity, position) ==
    [Position |-> position,
     Opacity |-> IF opacity < 0 \/ opacity > 4 THEN 2 ELSE opacity]

\* The values a caller passes: quarters for a percent or an opacity, halves
\* for a scale.
GivenQuarters == -2..6

GivenHalves == {-1, 0, 1, 2, 4}

\* The position names the constructors are called with: two of the overlay's
\* named positions; a named, and the empty, watermark position.
GivenOverlayPositions == {"center", "top-left"}

GivenWatermarkPositions == {"center", "bottom-right", ""}

ParamInit ==
    /\ ExecIdle
    /\ ImgIdle

\* A constructor returned: none of them has an error result, so the caller
\* holds the processor and no error.
Construct(kind, given, made) ==
    /\ op' = ([kind |-> kind, given |-> given, made |-> made] @@ NoOp)
    /\ opErr' = ""
    /\ UNCHANGED <<execVars, fonts, prevImg, curImg, nSteps, nStore, mosaic>>

\* NewMosaicProcessor(regions, mosaicPercent, startDirection)
NewMosaicProcessorStep ==
    \E mosaicPercent \in GivenQuarters, startDirection \in Directions :
        Construct("NewMosaicProcessor",
                  [percent |-> mosaicPercent],
                  NewMosaicProcessor(mosaicPercent, startDirection))

\* NewOverlayProcessor(overlayImage, x, y, opacity, scale)
NewOverlayProcessorStep ==
    \E opacity \in GivenQuarters, scale \in GivenHalves :
        Construct("NewOverlayProcessor",
                  [opacity |-> opacity, scale |-> scale],
                  OverlayProcessor(NilImg, 0, 0, "", opacity, scale))

\* NewOverlayProcessorWithPosition(overlayImage, position, opacity, scale)
NewOverlayProcessorWithPositionStep ==
    \E opacity \in GivenQuarters, scale \in GivenHalves, position \in GivenOverlayPositions :
        Construct("NewOverlayProcessorWithPosition",
                  [opacity |-> opacity, scale |-> scale],
                  OverlayProcessor(NilImg, 0, 0, position, opacity, scale))

\* NewWatermarkProcessor(text, fontSize, color, opacity, position, rotation)
NewWatermarkProcessorStep ==
    \E opacity \in GivenQuarters, position \in GivenWatermarkPositions :
        Construct("NewWatermarkProcessor",
                  [opacity |-> opacity],
                  NewWatermarkProcessor(opacity, position))

ParamNext ==
    \/ NewMosaicProcessorStep
    \/ NewOverlayProcessorStep
    \/ NewOverlayProcessorWithPositionStep
    \/ NewWatermarkProcessorStep

SpecParam == ParamInit /\ [][ParamNext]_vars

-----------------------------------------------------------------------------
(* Properties of the constructors *)

OverlayConstructors == {"NewOverlayProcessor", "NewOverlayProcessorWithPosition"}

Constructors == OverlayConstructors \cup {"NewMosaicProcessor", "NewWatermarkProcessor"}

OutOfUnit(q) == q < 0 \/ q > 4

\* The last constructor call was given a value outside its range.
OutOfRange ==
    \/ op.kind = "NewMosaicProcessor" /\ OutOfUnit(op.given.percent)
    \/ op.kind = "NewWatermarkProcessor" /\ OutOfUnit(op.given.opacity)
    \/ op.kind \in OverlayConstructors /\ (OutOfUnit(op.given.opacity) \/ op.given.scale <= 0)

\* C18 as stated: a mosaic percent outside [0,1], an overlay or watermark
\* opacity outside [0,1] and an overlay scale <= 0 each produce an error
\* instead of a processor.
C18_Original ==
    (op.kind \in Constructors /\ OutOfRange) => opErr # ""

\* C18, amended: no constructor returns an error; an out-of-range value is
\* replaced by a default (percent 1.0, overlay opacity 1.0, overlay scale
\* 1.0, watermark opacity 0.5), a value in range is kept, and the caller
\* receives a processor.
C18_Defaults ==
    /\ op.kind \in Constructors => opErr = ""
    /\ op.kind = "NewMosaicProcessor" =>
          op.made.MosaicPercent = IF OutOfUnit(op.given.percent) THEN 4 ELSE op.given.percent
    /\ op.kind = "NewWatermarkProcessor" =>
          op.made.Opacity = IF OutOfUnit(op.given.opacity) THEN 2 ELSE op.given.opacity
    /\ op.kind \in OverlayConstructors =>
          /\ op.made.Opacity = IF OutOfUnit(op.given.opacity) THEN 4 ELSE op.given.opacity
          /\ op.made.Scale = IF op.given.scale <= 0 THEN 2 ELSE op.given.scale

C18_Witness ==
    /\ op.kind = "NewOverlayProcessor"
    /\ op.given = [opacity |-> 5, scale |-> 0]
    /\ op.made.Opacity = 4
    /\ op.made.Scale = 2
    /\ opErr = ""

-----------------------------------------------------------------------------
(* Properties of the crop processor: validation and chained crops *)

\* The last processor was a rectangular (non-square-mode) crop.
RectCut == op.kind = "cut" /\ ~op.SquareMode

\* The custom region (X, Y, Width, Height) does not fit in the source; the
\* sums are those of the integers, written so that they stay in range.
RegionMisfit ==
    \/ op.X < 0
    \/ op.Y < 0
    \/ op.X > Dx(prevImg) - op.Width
    \/ op.Y > Dy(prevImg) - op.Height

\* The requested size is not positive or exceeds the source.
SizeInvalid ==
    \/ op.Width <= 0
    \/ op.Height <= 0
    \/ op.Width > Dx(prevImg)
    \/ op.Height > Dy(prevImg)

\* C19: a rectangular crop returns an error and no image exactly when the
\* requested width or height is <= 0, or exceeds the source width or height,
\* or a custom (x, y) region does not fit in the source; in every other case
\* it succeeds.
C19_CropValidation ==
    RectCut =>
        /\ (opErr # "") <=> (SizeInvalid \/ (op.UseCustomRegion /\ RegionMisfit))
        /\ (opErr # "") <=> (curImg = NilImg)

\* The last two processors were crops, and the second returned an image.
TwoCuts == nSteps = 2 /\ CutDone /\ op.prevKind = "cut"

\* C20: in a chain of two crop steps the second crop has exactly the
\* requested width and height, and its pixel (i, j) is the first output's
\* pixel at offset (x2 + i, y2 + j) from that output's top-left corner, also
\* when the first output is a view whose bounds do not start at (0, 0).
C20_ChainedCrop ==
    TwoCuts =>
        /\ Dx(curImg) = op.width
        /\ Dy(curImg) = op.height
        /\ op.x <= Dx(prevImg)
        /\ op.y <= Dy(prevImg)
        /\ \A i \in 0..(op.width - 1), j \in 0..(op.height - 1) :
              At(curImg, curImg.min[1] + i, curImg.min[2] + j)
                  = At(prevImg, prevImg.min[1] + op.x + i, prevImg.min[2] + op.y + j)

-----------------------------------------------------------------------------
(* Properties of the circular mask on a buffer of any bounds *)

\* pt is within N/2 of the centre (x0 + N/2, y0 + N/2) of the N x N buffer
\* img; the squares are scaled by 4.
InCentredCircle(pt, img) ==
    LET N == Dx(img)
        dx == 2 * (pt[1] - img.min[1]) - N
        dy == 2 * (pt[2] - img.min[2]) - N
    IN  dx * dx + dy * dy <= N * N

\* C21: the circular mask is centred on the centre of the buffer it
\* receives: on a square buffer with bounds [x0, x0+N) x [y0, y0+N) a pixel
\* keeps its source colour iff its distance from (x0 + N/2, y0 + N/2) is
\* <= N/2, and becomes fully transparent otherwise.
C21_CircleCentre ==
    (CircleRan /\ opErr = "") =>
        \A pt \in Points(prevImg.min, prevImg.max) :
            curImg.pix[pt] = IF InCentredCircle(pt, prevImg)
                             THEN prevImg.pix[pt] ELSE Transparent

(* Properties of the pixel storage of a step's result *)

\* A step has returned an image.
StepReturned == nSteps >= 1 /\ opErr = "" /\ curImg # NilImg

\* C22: the buffer a step returns never shares pixel storage with the
\* step's input buffer (a write to one is not visible through the other),
\* whatever the step: a crop, a square crop of a square image, the empty
\* processor.
C22_NoSharedStorage ==
    StepReturned => curImg.store # prevImg.store

-----------------------------------------------------------------------------
(* The drawing context (gg.Context behind ImageProcessContext.DC()) and the *)
(* built-in context processors: draw_circle.go, draw_rect.go               *)

\* gg.Matrix{XX, YX, XY, YY, X0, Y0}
Identity == <<1, 0, 0, 1, 0, 0>>

\* gg.Matrix.Multiply
Multiply(a, b) ==
    <<a[1] * b[1] + a[2] * b[3],
      a[1] * b[2] + a[2] * b[4],
      a[3] * b[1] + a[4] * b[3],
      a[3] * b[2] + a[4] * b[4],
      a[5] * b[1] + a[6] * b[3] + b[5],
      a[5] * b[2] + a[6] * b[4] + b[6]>>

\* cos and sin of an angle given in quarter turns (90 degrees each).
Cos4(q) == CASE q % 4 = 0 -> 1 [] q % 4 = 2 -> -1 [] OTHER -> 0

Sin4(q) == CASE q % 4 = 1 -> 1 [] q % 4 = 3 -> -1 [] OTHER -> 0

\* The drawing context of NewImageProcessContext: gg.NewContext starts with
\* the identity matrix and an empty stack.
NewContext == [stack |-> <<>>, matrix |-> Identity]

\* (*gg.Context).Push: the state is saved on the stack.
Push(dc) == [dc EXCEPT !.stack = Append(@, dc.matrix)]

\* (*gg.Context).Pop: the state saved last is restored.
PopContext(dc) ==
    [dc EXCEPT !.matrix = dc.stack[Len(dc.stack)],
               !.stack = SubSeq(@, 1, Len(@) - 1)]

\* (*gg.Context).Translate
Translate(dc, x, y) ==
    [dc EXCEPT !.matrix = Multiply(<<1, 0, 0, 1, x, y>>, @)]

\* (*gg.Context).Rotate, the angle in quarter turns.
Rotate(dc, q) ==
    [dc EXCEPT !.matrix = Multiply(<<Cos4(q), Sin4(q), -Sin4(q), Cos4(q), 0, 0>>, @)]

\* What a ContextProcess call leaves: the context, the drawing call it made
\* and the matrix that call drew with.
Drawn(dc, call, matrix) == [dc |-> dc, call |-> call, drawnIn |-> matrix]

\* DrawCircleProcessor.ContextProcess: SetColor, DrawCircle, Fill or Stroke.
DrawCircleContextProcess(dc, fill) ==
    Drawn(dc, IF fill THEN "Fill" ELSE "Stroke", dc.matrix)

\* DrawRectProcessor.ContextProcess: DrawRectangle, then Fill, FillPreserve
\* and Stroke, or Stroke.
DrawRectContextProcess(dc, fill, fillColor) ==
    Drawn(dc, IF fill /\ fillColor THEN "FillPreserve,Stroke"
              ELSE IF fill THEN "Fill" ELSE "Stroke", dc.matrix)

\* Mutant: the rotated branch does not pop the state it pushed.
TextContextProcess_NoPop(dc, x, y, Angle, drawWrapped) ==
    LET call == IF drawWrapped THEN "DrawStringWrapped" ELSE "DrawString"
        turned == Rotate(Translate(Push(dc), x, y), Angle)
    IN  IF Angle # 0
        THEN Drawn(turned, call, turned.matrix)
        ELSE Drawn(dc, call, Multiply(<<1, 0, 0, 1, x, y>>, dc.matrix))

\* TextProcessor.ContextProcess: with an angle, Push, Translate to the
\* position, Rotate, draw at the origin, Pop; without, draw at the position.
\* Angle is in quarter turns, drawWrapped is MaxWidth > 0.
TextContextProcess(dc, x, y, Angle, drawWrapped) ==
    LET call == IF drawWrapped THEN "DrawStringWrapped" ELSE "DrawString"
        turned == Rotate(Translate(Push(dc), x, y), Angle)
    IN  IF Angle # 0
        THEN Drawn(PopContext(turned), call, turned.matrix)
        ELSE Drawn(dc, call, Multiply(<<1, 0, 0, 1, x, y>>, dc.matrix))

\* No context processor has run on the new context.
NoDraw ==
    [kind |-> "none", dc |-> NewContext, found |-> NewContext, call |-> "",
     drawnIn |-> Identity, Angle |-> 0, at |-> <<0, 0>>, custom |-> FALSE]

DrawInit ==
    /\ ExecIdle
    /\ prevImg = NilImg
    /\ curImg = NilImg
    /\ op = NoDraw
    /\ opErr = ""
    /\ nSteps = 0
    /\ nStore = 0
    /\ mosaic = MosaicIdle
    /\ fonts = FontIdle

DrawFrame == UNCHANGED <<execVars, prevImg, curImg, opErr, nStore, mosaic, fonts>>

\* The next context processor of the chain runs on the shared context.
Draw(kind, r, Angle, at) ==
    /\ nSteps < MaxDraw
    /\ op' = [kind |-> kind, dc |-> r.dc, found |-> op.dc, call |-> r.call,
              drawnIn |-> r.drawnIn, Angle |-> Angle, at |-> at,
              custom |-> op.custom]
    /\ nSteps' = nSteps + 1
    /\ DrawFrame

DrawCircleStep ==
    \E fill \in BOOLEAN :
        Draw("circle", DrawCircleContextProcess(op.dc, fill), 0, <<0, 0>>)

DrawRectStep ==
    \E fill \in BOOLEAN, fillColor \in BOOLEAN :
        Draw("rect", DrawRectContextProcess(op.dc, fill, fillColor), 0, <<0, 0>>)

TextStep ==
    \E x \in 0..1, y \in 0..1, Angle \in 0..3, drawWrapped \in BOOLEAN :
        Draw("text", TextContextProcess(op.dc, x, y, Angle, drawWrapped), Angle, <<x, y>>)

\* A ContextProcessor of the caller's own, which may leave the context
\* changed: it pushes, pops, translates or rotates through ctx.DC().
CustomStep ==
    /\ nSteps < MaxDraw
    /\ \E dc \in {Translate(op.dc, 1, 0), Rotate(op.dc, 1)}
               \cup (IF Len(op.dc.stack) < MaxDepth THEN {Push(op.dc)} ELSE {})
               \cup (IF Len(op.dc.stack) > 0 THEN {PopContext(op.dc)} ELSE {}) :
          op' = [kind |-> "custom", dc |-> dc, found |-> op.dc, call |-> "",
                 drawnIn |-> Identity, Angle |-> 0, at |-> <<0, 0>>, custom |-> TRUE]
    /\ nSteps' = nSteps + 1
    /\ DrawFrame

DrawNext ==
    \/ DrawCircleStep
    \/ DrawRectStep
    \/ TextStep
    \/ CustomStep

SpecDraw == DrawInit /\ [][DrawNext]_vars

-----------------------------------------------------------------------------
(* Properties of the built-in context processors *)

BuiltInRan == op.kind \in {"circle", "rect", "text"}

\* The matrix a step is meant to draw with on an untouched context: the
\* identity, or for a text the translation to its position (and the
\* rotation about it).
OwnSpace ==
    IF op.kind = "text"
    THEN Multiply(<<Cos4(op.Angle), Sin4(op.Angle), -Sin4(op.Angle), Cos4(op.Angle), 0, 0>>,
                  <<1, 0, 0, 1, op.at[1], op.at[2]>>)
    ELSE Identity

\* C23: every built-in context step (circle, rectangle, text with or without
\* rotation or wrapping) leaves the transform and the stack of the context as
\* it found them; so after a sequence of built-in steps the stack is empty
\* and the matrix is the identity, and each step drew in its own coordinate
\* space, not in one an earlier step rotated or translated.
C23_ContextRestored ==
    /\ BuiltInRan => op.dc = op.found
    /\ (BuiltInRan /\ ~op.custom) =>
          /\ op.dc = NewContext
          /\ op.drawnIn = OwnSpace

\* A rotated, wrapped text was drawn on a context a custom step had left
\* translated or rotated with a saved state on the stack.
C23_Witness ==
    /\ op.kind = "text" /\ op.Angle # 0 /\ op.call = "DrawStringWrapped"
    /\ op.found.matrix # Identity /\ Len(op.found.stack) > 0
    /\ op.drawnIn # op.found.matrix

-----------------------------------------------------------------------------
(* mosaic.go: the block loop of MosaicProcessor.Process on rectangles of    *)
(* any size, one action per block                                           *)

\* Widths and heights of the blurred rectangle: the small ones, and those
\* around 100 where a tenth of the side passes the block size of 10.
BlurSizes == (1..MaxBlurSmall) \cup (95..MaxBlur)

\* Widths and heights at which a block holds more than 65,537 pixels.
WideSizes == 2565..MaxWide

TallSizes == 255..MaxTall

\* The value of every channel of every pixel of the image (img.At is the
\* same colour everywhere).
Shades == {0, 1, 254, 255}

\* A number of any size is kept as <<hi, lo>>: hi * 65536 + lo with
\* 0 <= lo < 65536.
AddWide(a, b) ==
    LET lo == a[2] + b[2]
    IN  <<a[1] + b[1] + (lo \div 65536), lo % 65536>>

\* a \div n for 0 < n < 2^22, by long division.
DivWide(a, n) ==
    LET r1 == a[1] % n
        c1 == r1 * 256 + (a[2] \div 256)
        c0 == (c1 % n) * 256 + (a[2] % 256)
    IN  (a[1] \div n) * 65536 + (c1 \div n) * 256 + (c0 \div n)

\* Mutant: the totals do not wrap (a wider integer type).
Uint32_Wider(a) == a

\* A uint32 holds the value modulo 2^32.
Uint32(a) == <<a[1] % 65536, a[2]>>

\* MosaicProcessor.Process, lines 216-229: total += r for every pixel of the
\* block, total a uint32.  rowTotal is what the pixels of one row add up to
\* (less than 2^31); the rows are added up by halves, which gives the same
\* total modulo 2^32 as adding them one after the other.
RECURSIVE TotalOfRows(_, _)
TotalOfRows(rows, rowTotal) ==
    IF rows = 0 THEN <<0, 0>>
    ELSE LET half == TotalOfRows(rows \div 2, rowTotal)
             twice == Uint32(AddWide(half, half))
         IN  IF rows % 2 = 1
             THEN Uint32(AddWide(twice, <<rowTotal \div 65536, rowTotal % 65536>>))
             ELSE twice

\* avgR := uint8(totalR / uint32(pixelCount) / 256)
Average(total, pixelCount) == (DivWide(total, pixelCount) \div 256) % 256

\* The block loops have not started on the rectangle actual of an image of
\* the given shade: (x, y) is the block to come.
BlockLoop(actual, shade) ==
    [kind |-> "block", x |-> actual[1], y |-> actual[2], actual |-> actual,
     mosaicSize |-> MosaicSize(actual), from |-> <<0, 0>>,
     blockEndX |-> 0, blockEndY |-> 0, pixelCount |-> 0, offset |-> <<0, 0, 0>>,
     done |-> FALSE, total |-> <<0, 0>>, shade |-> shade, blocks |-> {},
     column |-> 0, row |-> 1, avg |-> 0, randomSeed |-> 0]

\* MosaicProcessor.Process, lines 204-261: one iteration of the inner loop,
\* and the loop headers that lead to the next block.
NextBlock(b) ==
    LET x == b.x
        y == b.y
        blockEndX == BlockEnd(x, b.mosaicSize, b.actual[3])
        blockEndY == BlockEnd(y, b.mosaicSize, b.actual[4])
        pixelCount == (blockEndX - x) * (blockEndY - y)
        total == TotalOfRows(blockEndY - y, (blockEndX - x) * Channel16(b.shade))
        randomSeed == RandomSeed(x, y)
        rowEnds == x + b.mosaicSize >= b.actual[3]
    IN  [b EXCEPT !.x = IF rowEnds THEN b.actual[1] ELSE x + b.mosaicSize,
                  !.y = IF rowEnds THEN y + b.mosaicSize ELSE y,
                  !.done = rowEnds /\ y + b.mosaicSize >= b.actual[4],
                  !.blocks = @ \cup {<<x, y, blockEndX, blockEndY>>},
                  !.column = IF b.from[2] = y THEN @ + 1 ELSE 1,
                  !.row = IF b.column = 0 \/ b.from[2] = y THEN @ ELSE @ + 1,
                  !.blockEndX = blockEndX, !.blockEndY = blockEndY,
                  !.pixelCount = pixelCount, !.total = total,
                  !.avg = Average(total, pixelCount),
                  !.randomSeed = randomSeed,
                  !.offset = <<Offset(randomSeed, 0), Offset(randomSeed, 8),
                               Offset(randomSeed, 16)>>,
                  !.from = <<x, y>>]

BlockFrame ==
    /\ ExecIdle
    /\ prevImg = NilImg
    /\ curImg = NilImg
    /\ opErr = ""
    /\ nSteps = 0
    /\ nStore = 0
    /\ mosaic = MosaicIdle
    /\ fonts = FontIdle

\* The rectangle to blur, as the region, the percent and the direction give
\* it.
BlockInit ==
    /\ BlockFrame
    /\ \E w \in BlurSizes, h \in BlurSizes, fromX \in {0, 3} :
          op = BlockLoop(<<fromX, 0, fromX + w, h>>, 255)

\* The same on images large enough for blocks of 256 pixels and more a side.
WideInit ==
    /\ BlockFrame
    /\ \E w \in WideSizes, h \in TallSizes, shade \in Shades :
          op = BlockLoop(<<0, 0, w, h>>, shade)

BlockStep ==
    /\ ~op.done
    /\ op' = NextBlock(op)
    /\ UNCHANGED <<execVars, prevImg, curImg, opErr, nSteps, nStore, mosaic, fonts>>

BlockNext == BlockStep

SpecBlock == BlockInit /\ [][BlockNext]_vars

SpecWide == WideInit /\ [][BlockNext]_vars

-----------------------------------------------------------------------------
(* Properties of the block loop *)

\* The block loop has run to its end.
BlocksDone == op.kind = "block" /\ op.done

BlurWidth == op.actual[3] - op.actual[1]

BlurHeight == op.actual[4] - op.actual[2]

\* max(10, floor(w / 10), floor(h / 10))
TenthOrTen(w, h) == Max2(10, Max2(w \div 10, h \div 10))

\* The spans [start, end) the blocks take on the x axis and on the y axis.
SpansX == {<<b[1], b[3]>> : b \in op.blocks}

SpansY == {<<b[2], b[4]>> : b \in op.blocks}

\* Every coordinate of [from, to) lies in exactly one of the spans, and the
\* spans stay inside [from, to).
SplitsExactly(spans, from, to) ==
    /\ \A s \in spans : from <= s[1] /\ s[1] < s[2] /\ s[2] <= to
    /\ \A v \in from..(to - 1) :
          Cardinality({s \in spans : s[1] <= v /\ v < s[2]}) = 1

\* The blocks are the grid of the x spans and the y spans, each once, and
\* the spans split the sides of the blurred rectangle exactly: every pixel
\* of the rectangle lies in exactly one block.
BlocksPartition ==
    /\ op.blocks = {<<sx[1], sy[1], sx[2], sy[2]>> : sx \in SpansX, sy \in SpansY}
    /\ SplitsExactly(SpansX, op.actual[1], op.actual[3])
    /\ SplitsExactly(SpansY, op.actual[2], op.actual[4])

\* The statement of C24 as it was made: at most 10 tiles along each axis.
C24_Original ==
    BlocksDone =>
        /\ op.mosaicSize = TenthOrTen(BlurWidth, BlurHeight)
        /\ BlocksPartition
        /\ op.column <= 10 /\ op.row <= 10

\* C24: the tile size for a blurred rectangle of w x h pixels is
\* max(10, floor(w/10), floor(h/10)); the tiles, the boundary ones clipped,
\* partition the rectangle exactly; and the rectangle is covered by at most
\* 11 tiles along each axis (11, not 10: a side of 101 pixels takes ten
\* tiles of 10 and one of 1).
C24_TileGrid ==
    BlocksDone =>
        /\ op.mosaicSize = TenthOrTen(BlurWidth, BlurHeight)
        /\ BlocksPartition
        /\ op.column <= 11 /\ op.row <= 11
        /\ Cardinality(SpansX) = op.column /\ Cardinality(SpansY) = op.row

\* A rectangle whose height sets the tile size above 10 was covered by 11
\* columns of tiles, the last one clipped.
C24_Witness ==
    /\ BlocksDone
    /\ op.mosaicSize > 10 /\ op.mosaicSize = BlurHeight \div 10
    /\ BlurWidth > BlurHeight
    /\ op.column = 11
    /\ op.blockEndX - op.from[1] < op.mosaicSize

\* A block has been processed: op.from is its top-left corner.
BlockProcessed == op.kind = "block" /\ op.column > 0

\* (x * 1103515245 + y * 69069) & 0x7fffffff for 0 <= x, y < 2^12, from the
\* halves of 1103515245 = 16838 * 65536 + 20077.
SeedAt(x, y) ==
    LET low == x * 20077 + y * 69069
        high == x * 16838 + (low \div 65536)
    IN  (high % 32768) * 65536 + (low % 65536)

\* C25: the jitter of a tile depends only on its top-left corner (x, y): with
\* seed = (x * 1103515245 + y * 69069) & 0x7fffffff the offsets of R, G and B
\* are (seed >> 0) % 21 - 10, (seed >> 8) % 21 - 10 and (seed >> 16) % 21 - 10,
\* each in [-10, 10]; nothing else enters, so two runs on the same input
\* give the same output.
C25_Jitter ==
    BlockProcessed =>
        LET seed == SeedAt(op.from[1], op.from[2])
        IN  /\ op.randomSeed = seed
            /\ op.offset = <<(seed % 21) - 10, ((seed \div 256) % 21) - 10,
                             ((seed \div 65536) % 21) - 10>>
            /\ \A i \in 1..3 : -10 <= op.offset[i] /\ op.offset[i] <= 10

\* A tile away from both axes, its product past 2^31, got a lowest and a
\* highest offset.
C25_Witness ==
    /\ BlockProcessed
    /\ op.from[1] > 0 /\ op.from[2] > 0
    /\ op.from[1] * 16838 >= 32768
    /\ \E i, j \in 1..3 : op.offset[i] = -10 /\ op.offset[j] = 10

\* The sum of the 16-bit values of one channel over the block processed
\* last, as a number of any size <<hi, lo>>: rows times the total of a row.
ExactTotal ==
    LET rows == op.blockEndY - op.from[2]
        rowTotal == (op.blockEndX - op.from[1]) * Channel16(op.shade)
        low == rows * (rowTotal % 65536)
    IN  <<rows * (rowTotal \div 65536) + (low \div 65536), low % 65536>>

\* C26: the uint32 channel totals of a tile never wrap around: for every
\* tile the block-size rule produces, the total is the sum of the 16-bit
\* channel values of its pixels and the mean computed from it is their
\* integer mean (brought back to 8 bits).
C26_TotalsExact ==
    BlockProcessed =>
        /\ op.total = ExactTotal
        /\ op.avg = DivWide(ExactTotal, op.pixelCount) \div 256

-----------------------------------------------------------------------------
(* Properties of the zoom to fit the longer or the shorter edge *)

FitRan == op.kind = "zoom" /\ op.Mode \in {"max", "min"} /\ op.Width = op.Height

\* round(n / d), halves away from zero, of the exact fraction (d > 0).
RoundFraction(n, d) ==
    IF n >= 0 THEN (2 * n + d) \div (2 * d) ELSE -((2 * (-n) + d) \div (2 * d))

\* The edge of the input the size applies to: the longer one in mode max,
\* the shorter one in mode min.
Constrained ==
    IF op.Mode = "max" THEN Max2(Dx(prevImg), Dy(prevImg))
    ELSE Min2(Dx(prevImg), Dy(prevImg))

\* C27: fitting the longer (the shorter) edge to size s gives a target whose
\* longer (shorter) edge is s and whose other edge is
\* round(other * s / constrained); the buffer returned has the target size,
\* and a target width or height <= 0 gives an error and no image.
C27_FitEdges ==
    FitRan =>
        LET s == op.Width
            target == <<RoundFraction(Dx(prevImg) * s, Constrained),
                        RoundFraction(Dy(prevImg) * s, Constrained)>>
        IN  /\ <<op.width, op.height>> = target
            /\ IF op.width <= 0 \/ op.height <= 0
               THEN opErr # "" /\ curImg = NilImg
               ELSE /\ opErr = "" /\ Dx(curImg) = op.width /\ Dy(curImg) = op.height
                    /\ IF op.Mode = "max" THEN Max2(op.width, op.height) = s
                       ELSE Min2(op.width, op.height) = s

-----------------------------------------------------------------------------
(* draw_rect.go: wrapTextByRune, splitByNewline, joinWithNewline.  A string *)
(* is the sequence of its characters.                                       *)

NewLine == "\n"

\* The characters of the texts: a narrow one, a wide one, a pair that kerns,
\* and the line break.
Runes == {"i", "W", "V", NewLine}

\* The advance of a glyph of the font face, and the kerning between two
\* glyphs, in pixels.
Advance(r) == CASE r = "i" -> 1 [] r = "W" -> 3 [] r = "V" -> 2 [] OTHER -> 0

Kern(a, b) == IF a = "V" /\ b = "V" THEN -1 ELSE 0

\* float64(d.MeasureString(s)) / 64.0: the advances of the glyphs and the
\* kerning between neighbours.
RECURSIVE MeasureString(_)
MeasureString(str) ==
    IF str = <<>> THEN 0
    ELSE LET front == SubSeq(str, 1, Len(str) - 1)
         IN  MeasureString(front) + Advance(str[Len(str)])
                 + (IF front = <<>> THEN 0 ELSE Kern(front[Len(front)], str[Len(str)]))

\* splitByNewline: out and cur after the characters of str.
RECURSIVE SplitLoop(_)
SplitLoop(str) ==
    IF str = <<>> THEN [out |-> <<>>, cur |-> <<>>]
    ELSE LET before == SplitLoop(SubSeq(str, 1, Len(str) - 1))
             r == str[Len(str)]
         IN  IF r = NewLine
             THEN [out |-> Append(before.out, before.cur), cur |-> <<>>]
             ELSE [out |-> before.out, cur |-> Append(before.cur, r)]

splitByNewline(str) == Append(SplitLoop(str).out, SplitLoop(str).cur)

\* joinWithNewline
RECURSIVE joinWithNewline(_)
joinWithNewline(lines) ==
    IF lines = <<>> THEN <<>>
    ELSE IF Len(lines) = 1 THEN lines[1]
    ELSE joinWithNewline(SubSeq(lines, 1, Len(lines) - 1)) \o <<NewLine>> \o lines[Len(lines)]

\* Mutant: on overflow the new line starts empty.
WrapRune_Dropped(w, r) ==
    LET next == Append(w.current, r)
    IN  IF MeasureString(next) <= w.maxWidth \/ w.current = <<>>
        THEN [w EXCEPT !.current = next, !.pos = @ + 1]
        ELSE [w EXCEPT !.lines = Append(@, w.current), !.current = <<>>, !.pos = @ + 1]

\* wrapTextByRune, lines 278-287: the body of the loop over the characters
\* of a segment.
WrapRune(w, r) ==
    LET next == Append(w.current, r)
    IN  IF MeasureString(next) <= w.maxWidth \/ w.current = <<>>
        THEN [w EXCEPT !.current = next, !.pos = @ + 1]
        ELSE [w EXCEPT !.lines = Append(@, w.current), !.current = <<r>>, !.pos = @ + 1]

\* wrapTextByRune, lines 276-277 and 288-291: a segment ends and the next
\* one begins.
WrapSegmentEnd(w) ==
    [w EXCEPT !.lines = IF w.current # <<>> THEN Append(@, w.current) ELSE @,
              !.current = <<>>, !.seg = @ + 1, !.pos = 1]

\* wrapTextByRune(face, s, maxWidth) has been called.
WrapCall(str, maxWidth) ==
    [kind |-> "wrap", out |-> <<>>, done |-> FALSE, lines |-> <<>>,
     current |-> <<>>, maxWidth |-> maxWidth, pos |-> 1, seg |-> 1,
     text |-> str, segments |-> splitByNewline(str)]

WrapInit ==
    /\ BlockFrame
    /\ \E str \in SeqsUpTo(Runes, MaxText), maxWidth \in 1..MaxWidth :
          op = WrapCall(str, maxWidth)

WrapFrame == UNCHANGED <<execVars, prevImg, curImg, opErr, nSteps, nStore, mosaic, fonts>>

WrapRuneStep ==
    /\ ~op.done
    /\ op.seg <= Len(op.segments)
    /\ op.pos <= Len(op.segments[op.seg])
    /\ op' = WrapRune(op, op.segments[op.seg][op.pos])
    /\ WrapFrame

WrapSegmentStep ==
    /\ ~op.done
    /\ op.seg <= Len(op.segments)
    /\ op.pos > Len(op.segments[op.seg])
    /\ op' = WrapSegmentEnd(op)
    /\ WrapFrame

\* return joinWithNewline(lines)
WrapReturn ==
    /\ ~op.done
    /\ op.seg > Len(op.segments)
    /\ op' = [op EXCEPT !.out = joinWithNewline(op.lines), !.done = TRUE]
    /\ WrapFrame

WrapNext ==
    \/ WrapRuneStep
    \/ WrapSegmentStep
    \/ WrapReturn

SpecWrap == WrapInit /\ [][WrapNext]_vars

-----------------------------------------------------------------------------
(* Properties of the wrapping by character *)

WrapDone == op.kind = "wrap" /\ op.done

\* str without its line breaks.
Unbroken(str) == SelectSeq(str, LAMBDA r : r # NewLine)

\* The lines of str: the stretches between line breaks.
LinesOf(str) ==
    LET breaks == {i \in 1..Len(str) : str[i] = NewLine}
        starts == {1} \cup {i + 1 : i \in breaks}
    IN  {SubSeq(str, i, (CHOOSE j \in (breaks \cup {Len(str) + 1}) :
                            j >= i /\ \A k \in breaks : k >= i => j <= k) - 1) :
             i \in starts}

\* C28: the wrapping by character is a width-bounded, content-preserving
\* split: every line of the output measures at most maxWidth unless it is a
\* single character, and the output without its line breaks is the input
\* without its line breaks (nothing lost, doubled or moved).
C28_WrapByRune ==
    WrapDone =>
        /\ \A line \in LinesOf(op.out) :
              Len(line) = 1 \/ MeasureString(line) <= op.maxWidth
        /\ Unbroken(op.out) = Unbroken(op.text)

\* A text with a line break of its own was wrapped: a line was cut because
\* the next character did not fit, and a character wider than maxWidth
\* stands alone on its line.
C28_Witness ==
    /\ WrapDone
    /\ \E i \in 1..Len(op.text) : op.text[i] = NewLine
    /\ Len(op.lines) > Len(op.segments)
    /\ \E line \in LinesOf(op.out) : MeasureString(line) > op.maxWidth
    /\ \E line \in LinesOf(op.out) : Len(line) >= 2

====
